---- MODULE Spec2Model ----
(***************************************************************************)
(* Model of the phishing-analysis engine of llm-phish-dector:              *)
(*   - ModelFactory.validateConfig / createModel      (model-factory.ts)   *)
(*   - analyzePhishingEmail, PhishingDetector          (phishing-detector) *)
(*   - PhishingAnalysisWorkflow, the LangGraph state machine               *)
(*     initial_analysis -> tool_calling <-> continue_analysis ->           *)
(*     final_analysis                                  (phishing-workflow) *)
(*                                                                         *)
(* Strings are sequences of characters (one-character strings; a fixed     *)
(* literal of the program is written as a single token, a CJK character   *)
(* as its code point, "U+9AD8").  JS values are                            *)
(* tagged records [t |-> type, v |-> value].  JS numbers are kept in       *)
(* tenths, so 87.6 is 876.                                                 *)
(***************************************************************************)
EXTENDS Integers, Sequences, FiniteSets, TLC

VARIABLES
  pc,             \* position of the one request: "start", a graph node, ...
  entry,          \* "api" (analyzePhishingEmail) or "workflow" (the class used directly)
  request,        \* the AnalysisRequest handed to analyzePhishingEmail
  ctorUseTools,   \* useTools given to the PhishingAnalysisWorkflow constructor
  messages,       \* WorkflowState.messages
  toolResults,    \* WorkflowState.toolResults: tool name -> result
  finalResult,    \* WorkflowState.finalResult
  useTools,       \* WorkflowState.useTools
  currentStep,    \* WorkflowState.currentStep
  toolCallCount,  \* WorkflowState.toolCallCount
  clock,          \* number of Date reads so far (new Date().toISOString())
  modelCalls,     \* number of model invocations made for the request
  lastReply,      \* how the latest model.invoke settled: the response or the error
  executed,       \* graph nodes executed so far, in order
  thrown,         \* the error in flight or raised to the caller
  result,         \* the PhishingDetectionResult returned to the caller
  pureCall,       \* a function of the program called on its own: its name and argument
  pureResult,     \* what that call returned or threw
  aborted,        \* signal.aborted of the AbortController of the hook that sent the request
  processEnv,     \* process.env.TAVILY_API_KEY of the server process
  runs,           \* the calls of analyze of the ReAct variant: each one's locals
  hook            \* usePhishingAnalysis: its React state and the calls it has in flight

vars == <<pc, entry, request, ctorUseTools, messages, toolResults, finalResult,
          useTools, currentStep, toolCallCount, clock, modelCalls, lastReply,
          executed, thrown, result, pureCall, pureResult, aborted,
          processEnv, runs, hook>>

(***************************************************************************)
(* Bounds of the model.                                                    *)
(***************************************************************************)
MaxModelCalls == 9       \* no run is followed past this many model invocations
MaxCallsPerReply == 2    \* tool requests carried by one model response

(***************************************************************************)
(* Strings.                                                                *)
(***************************************************************************)
IsSpace(c) == c \in {" ", "\n", "\t"}

RECURSIVE TrimStart(_)
TrimStart(s) ==
  IF s # <<>> /\ IsSpace(Head(s)) THEN TrimStart(Tail(s)) ELSE s

RECURSIVE TrimEnd(_)
TrimEnd(s) ==
  IF s # <<>> /\ IsSpace(s[Len(s)]) THEN TrimEnd(SubSeq(s, 1, Len(s) - 1)) ELSE s

Trim(s) == TrimEnd(TrimStart(s))

StartsWith(s, p) == Len(s) >= Len(p) /\ SubSeq(s, 1, Len(p)) = p

(***************************************************************************)
(* JS values.                                                              *)
(***************************************************************************)
JSUndefined == [t |-> "undefined", v |-> 0]
JSNull == [t |-> "null", v |-> 0]
JSNaN == [t |-> "nan", v |-> 0]
JSBool(b) == [t |-> "boolean", v |-> b]
JSNum(n) == [t |-> "number", v |-> n]
JSStr(s) == [t |-> "string", v |-> s]
JSArr(a) == [t |-> "array", v |-> a]
JSObj(o) == [t |-> "object", v |-> o]

\* typeof x === 'number' (NaN is a number)
IsNumber(x) == x.t \in {"number", "nan"}

\* JS truthiness: !!x
Truthy(x) ==
  CASE x.t \in {"undefined", "null", "nan"} -> FALSE
    [] x.t = "boolean" -> x.v
    [] x.t = "number" -> x.v # 0
    [] x.t = "string" -> x.v # <<>>
    [] OTHER -> TRUE

(***************************************************************************)
(* ModelFactory (model-factory.ts).                                        *)
(***************************************************************************)
Valid == [valid |-> TRUE, error |-> <<>>]
Invalid(msg) == [valid |-> FALSE, error |-> msg]

validateApiKeyFormat(provider, apiKey) ==
  CASE provider = "openai" ->
         IF ~StartsWith(apiKey, <<"s", "k", "-">>) THEN Invalid(<<"OPENAI_KEY_PREFIX">>) ELSE Valid
    [] provider = "anthropic" ->
         IF ~StartsWith(apiKey, <<"s", "k", "-", "a", "n", "t", "-">>) THEN Invalid(<<"ANTHROPIC_KEY_PREFIX">>) ELSE Valid
    [] provider = "google" ->
         IF Len(apiKey) < 10 THEN Invalid(<<"GOOGLE_KEY_TOO_SHORT">>) ELSE Valid
    [] OTHER -> Valid

supportedProviders == {"openai", "anthropic", "google"}

\* temperature < 0 || temperature > 2, with NaN comparing false both ways
TemperatureOutOfRange(temperature) ==
  temperature.t = "number" /\ (temperature.v < 0 \/ temperature.v > 20)

\* a validation that lets every configuration through
validateConfigAcceptsAll(config) == Valid

validateConfig(config) ==
  IF config.provider = "" THEN Invalid(<<"PROVIDER_EMPTY">>)
  ELSE IF config.model = <<>> \/ Trim(config.model) = <<>>
    THEN Invalid(<<"MODEL_EMPTY">>)
  ELSE IF config.apiKey = <<>> \/ Trim(config.apiKey) = <<>>
    THEN Invalid(<<"API_KEY_EMPTY">>)
  ELSE IF ~IsNumber(config.temperature) \/ TemperatureOutOfRange(config.temperature)
    THEN Invalid(<<"TEMPERATURE_RANGE">>)
  ELSE IF config.provider \notin supportedProviders
    THEN Invalid(<<"UNSUPPORTED_PROVIDER: ", config.provider>>)
  ELSE validateApiKeyFormat(config.provider, config.apiKey)

NoError == [name |-> "none", code |-> "", message |-> <<>>]
Err(name, code, msg) == [name |-> name, code |-> code, message |-> msg]

\* createModel: the handle, or the ModelConfigError of the default branch.
\* Constructing the client makes no network call.
createModel(config) ==
  IF config.provider \in supportedProviders
  THEN [threw |-> FALSE, error |-> NoError, bindTools |-> TRUE]
  ELSE [threw |-> TRUE,
        error |-> Err("ModelConfigError", "UNSUPPORTED_PROVIDER",
                      <<"UNSUPPORTED_PROVIDER: ", config.provider>>),
        bindTools |-> FALSE]

(***************************************************************************)
(* More strings: includes, toLowerCase, split, decimal text.               *)
(***************************************************************************)
Includes(s, sub) ==
  \E i \in 1..(Len(s) - Len(sub) + 1) : SubSeq(s, i, i + Len(sub) - 1) = sub

UpperCaseLetters == <<"A", "B", "C", "D", "E", "F", "G", "H", "I", "J", "K", "L", "M", "N", "O", "P", "Q", "R", "S", "T", "U", "V", "W", "X", "Y", "Z">>
LowerCaseLetters == <<"a", "b", "c", "d", "e", "f", "g", "h", "i", "j", "k", "l", "m", "n", "o", "p", "q", "r", "s", "t", "u", "v", "w", "x", "y", "z">>

LowerChar(c) ==
  IF \E i \in 1..Len(UpperCaseLetters) : UpperCaseLetters[i] = c
  THEN LowerCaseLetters[CHOOSE i \in 1..Len(UpperCaseLetters) : UpperCaseLetters[i] = c]
  ELSE c

ToLowerCase(s) == [i \in 1..Len(s) |-> LowerChar(s[i])]

\* s.split('\n')
RECURSIVE SplitLines(_)
SplitLines(s) ==
  IF \E i \in 1..Len(s) : s[i] = "\n"
  THEN LET i == CHOOSE k \in 1..Len(s) : s[k] = "\n" /\ \A j \in 1..(k - 1) : s[j] # "\n"
       IN <<SubSeq(s, 1, i - 1)>> \o SplitLines(SubSeq(s, i + 1, Len(s)))
  ELSE <<s>>

RECURSIVE SelectSeqBy(_, _)
\* keep[i] says whether s[i] stays (Array.prototype.filter)
SelectSeqBy(s, keep) ==
  IF s = <<>> THEN <<>>
  ELSE (IF Head(keep) THEN <<Head(s)>> ELSE <<>>) \o SelectSeqBy(Tail(s), Tail(keep))

DigitChars == <<"0", "1", "2", "3", "4", "5", "6", "7", "8", "9">>
IsDigit(c) == \E i \in 1..10 : DigitChars[i] = c
DigitValue(c) == (CHOOSE i \in 1..10 : DigitChars[i] = c) - 1

RECURSIVE DigitsValue(_)
DigitsValue(s) ==
  IF s = <<>> THEN 0 ELSE DigitsValue(SubSeq(s, 1, Len(s) - 1)) * 10 + DigitValue(s[Len(s)])

AllDigits(s) == \A i \in 1..Len(s) : IsDigit(s[i])

\* The numeric value, in tenths, of an unsigned decimal text with at most one
\* fractional digit; JSNaN otherwise.
UnsignedDecimal(s) ==
  IF s # <<>> /\ AllDigits(s) THEN JSNum(DigitsValue(s) * 10)
  ELSE IF Len(s) >= 3 /\ s[Len(s) - 1] = "." /\ AllDigits(SubSeq(s, 1, Len(s) - 2))
          /\ IsDigit(s[Len(s)])
    THEN JSNum(DigitsValue(SubSeq(s, 1, Len(s) - 2)) * 10 + DigitValue(s[Len(s)]))
  ELSE JSNaN

\* Number(text): blank text is 0, a decimal literal its value, anything else NaN
StringToNumber(s) ==
  LET t == Trim(s) IN
  IF t = <<>> THEN JSNum(0)
  ELSE IF Head(t) = "-"
    THEN LET u == UnsignedDecimal(Tail(t)) IN
         IF u.t = "number" THEN JSNum(0 - u.v) ELSE JSNaN
  ELSE UnsignedDecimal(t)

\* Number(x)
ToNumber(x) ==
  CASE x.t = "number" -> x
    [] x.t = "string" -> StringToNumber(x.v)
    [] x.t = "boolean" -> JSNum(IF x.v THEN 10 ELSE 0)
    [] x.t = "null" -> JSNum(0)
    [] x.t = "array" /\ x.v = <<>> -> JSNum(0)
    [] OTHER -> JSNaN

RECURSIVE NatToString(_)
NatToString(n) ==
  IF n < 10 THEN <<DigitChars[n + 1]>>
  ELSE NatToString(n \div 10) \o <<DigitChars[(n % 10) + 1]>>

\* String(n) of a number kept in tenths
NumberToString(n) ==
  LET a == IF n < 0 THEN 0 - n ELSE n
      whole == NatToString(a \div 10)
      frac == IF a % 10 = 0 THEN <<>> ELSE <<".", DigitChars[(a % 10) + 1]>>
  IN (IF n < 0 THEN <<"-">> ELSE <<>>) \o whole \o frac

\* String(x); arrays and objects are written as one token
StringOf(x) ==
  CASE x.t = "string" -> x.v
    [] x.t = "number" -> NumberToString(x.v)
    [] x.t = "boolean" -> IF x.v THEN <<"t", "r", "u", "e">> ELSE <<"f", "a", "l", "s", "e">>
    [] x.t = "nan" -> <<"N", "a", "N">>
    [] x.t = "array" -> <<"[array]">>
    [] x.t = "object" -> <<"[object Object]">>
    [] OTHER -> <<x.t>>

Min(a, b) == IF a < b THEN a ELSE b
Max(a, b) == IF a > b THEN a ELSE b

(***************************************************************************)
(* PhishingDetectionResult and the constructors of its fallback forms.     *)
(* The fields are those of the object literal at the source; isError and   *)
(* errorMessage are JSUndefined where the literal does not set them.       *)
(***************************************************************************)
NoResult == [set |-> FALSE]

MkResult(isPhishing, confidenceScore, suspiciousPoints, explanation, riskLevel, now) ==
  [set |-> TRUE,
   isPhishing |-> isPhishing,
   confidenceScore |-> confidenceScore,
   suspiciousPoints |-> suspiciousPoints,
   explanation |-> explanation,
   riskLevel |-> riskLevel,
   timestamp |-> now,
   isError |-> JSUndefined,
   errorMessage |-> JSUndefined]

\* PhishingDetector.createErrorResult
createErrorResult(message, now) ==
  MkResult(FALSE, 0, <<JSStr(<<"Error: ">> \o message)>>,
           <<"An error occurred during analysis: ">> \o message, "low", now)

\* the literal returned by analyzePhishingEmail when the constructor throws
InitErrorResult(errorMessage, now) ==
  MkResult(FALSE, 0, <<JSStr(<<"Initialization error: ">> \o errorMessage)>>,
           <<"An error occurred during detector initialization: ">> \o errorMessage,
           "low", now)

\* the literal parseResult returns when every parsing attempt failed
ParseFallbackResult(now) ==
  MkResult(TRUE, 500, <<JSStr(<<"MODEL_RESPONSE_FORMAT_INVALID">>)>>,
           <<"MODEL_RESPONSE_FORMAT_PROBLEM_CHECK_MANUALLY">>, "medium", now)

\* the literal finalAnalysis returns when there is no AI message to parse
BasicFallbackResult(now) ==
  MkResult(TRUE, 500, <<JSStr(<<"COULD_NOT_COMPLETE_ANALYSIS">>)>>,
           <<"TECHNICAL_PROBLEM_CHECK_MANUALLY">>, "medium", now)

(***************************************************************************)
(* Field validation of PhishingDetector (the analyzeWithoutTools path).    *)
(* Each validator gives [ok, v] : ok = FALSE is the thrown Error.          *)
(***************************************************************************)
Ok(v) == [ok |-> TRUE, v |-> v, error |-> <<>>]
Throws(msg) == [ok |-> FALSE, v |-> JSUndefined, error |-> msg]

validateBoolean(value) ==
  IF value.t = "boolean" THEN Ok(value.v)
  ELSE IF value.t = "string"
    THEN LET lowerValue == ToLowerCase(value.v) IN
         IF lowerValue \in {<<"t", "r", "u", "e">>, <<"U+662F">>, <<"y", "e", "s">>} THEN Ok(TRUE)
         ELSE IF lowerValue \in {<<"f", "a", "l", "s", "e">>, <<"U+5426">>, <<"n", "o">>} THEN Ok(FALSE)
         ELSE Throws(<<"isPhishing must be a boolean">>)
  ELSE Throws(<<"isPhishing must be a boolean">>)

\* Math.round of a number kept in tenths, as a whole number
MathRound(n) == (n + 5) \div 10

validateConfidenceScore(score) ==
  LET numScore == ToNumber(score) IN
  IF numScore.t = "nan" THEN Throws(<<"confidence score must be a number">>)
  ELSE IF numScore.v < 0 \/ numScore.v > 1000
    THEN Throws(<<"confidence score must be within 0-100">>)
  ELSE Ok(MathRound(Max(0, Min(1000, numScore.v))) * 10)

IsNonBlankString(x) == x.t = "string" /\ Trim(x.v) # <<>>

validateSuspiciousPoints(points) ==
  IF points.t # "array"
  THEN IF points.t = "string"
       THEN LET all == SplitLines(points.v)
                lines == SelectSeqBy(all, [i \in 1..Len(all) |-> Trim(all[i]) # <<>>])
            IN IF Len(lines) > 0
               THEN Ok([i \in 1..Len(lines) |-> JSStr(Trim(lines[i]))])
               ELSE Ok(<<JSStr(Trim(points.v))>>)
       ELSE Throws(<<"suspicious points must be an array of strings">>)
  ELSE LET kept == SelectSeqBy(points.v,
                     [i \in 1..Len(points.v) |-> IsNonBlankString(points.v[i])])
           trimmed == [i \in 1..Len(kept) |-> JSStr(Trim(kept[i].v))]
           validPoints == SubSeq(trimmed, 1, Min(10, Len(trimmed)))
       IN IF Len(validPoints) = 0
          THEN Ok(<<JSStr(<<"NO_OBVIOUS_SUSPICIOUS_POINTS">>)>>)
          ELSE Ok(validPoints)

MaxExplanationLength == 2000

validateExplanation(explanation) ==
  IF explanation.t # "string" THEN Throws(<<"explanation must be a string">>)
  ELSE LET trimmed == Trim(explanation.v) IN
       IF Len(trimmed) = 0 THEN Throws(<<"explanation must not be empty">>)
       ELSE IF Len(trimmed) > MaxExplanationLength
         THEN Ok(SubSeq(trimmed, 1, MaxExplanationLength) \o <<".", ".", ".">>)
       ELSE Ok(trimmed)

LevelName(s) ==
  CASE s = <<"l", "o", "w">> -> "low"
    [] s = <<"m", "e", "d", "i", "u", "m">> -> "medium"
    [] s = <<"h", "i", "g", "h">> -> "high"
    [] OTHER -> "none"

validateRiskLevel(level) ==
  IF level.t = "string"
  THEN LET lowerLevel == ToLowerCase(level.v) IN
       IF LevelName(lowerLevel) # "none" THEN Ok(LevelName(lowerLevel))
       ELSE IF Includes(lowerLevel, <<"U+4F4E">>) \/ Includes(lowerLevel, <<"l", "o", "w">>)
         THEN Ok("low")
       ELSE IF Includes(lowerLevel, <<"U+4E2D">>) \/ Includes(lowerLevel, <<"m", "e", "d", "i", "u", "m">>)
         THEN Ok("medium")
       ELSE IF Includes(lowerLevel, <<"U+9AD8">>) \/ Includes(lowerLevel, <<"h", "i", "g", "h">>)
         THEN Ok("high")
       ELSE Throws(<<"risk level must be low, medium or high">>)
  ELSE Throws(<<"risk level must be low, medium or high">>)

requiredFields ==
  <<"isPhishing", "confidenceScore", "suspiciousPoints", "explanation", "riskLevel">>

\* rawResult[field], undefined for a value that is no object or lacks the key
Field(raw, field) == IF raw.t = "object" THEN raw.v[field] ELSE JSUndefined

\* PhishingDetector.validateAndFormatResult: [ok, v] with v the result
\* (timestamp '' until the caller sets it), or the Error thrown
validateAndFormatResult(rawResult) ==
  IF ~Truthy(rawResult) \/ rawResult.t \notin {"object", "array"}
  THEN Throws(<<"analysis result format invalid">>)
  ELSE IF \E i \in 1..Len(requiredFields) : Field(rawResult, requiredFields[i]).t = "undefined"
    THEN Throws(<<"analysis result lacks required fields">>)
  ELSE LET b == validateBoolean(Field(rawResult, "isPhishing"))
           c == validateConfidenceScore(Field(rawResult, "confidenceScore"))
           p == validateSuspiciousPoints(Field(rawResult, "suspiciousPoints"))
           e == validateExplanation(Field(rawResult, "explanation"))
           r == validateRiskLevel(Field(rawResult, "riskLevel"))
       IN IF ~b.ok THEN Throws(<<"result validation failed: ">> \o b.error)
          ELSE IF ~c.ok THEN Throws(<<"result validation failed: ">> \o c.error)
          ELSE IF ~p.ok THEN Throws(<<"result validation failed: ">> \o p.error)
          ELSE IF ~e.ok THEN Throws(<<"result validation failed: ">> \o e.error)
          ELSE IF ~r.ok THEN Throws(<<"result validation failed: ">> \o r.error)
          ELSE Ok(MkResult(b.v, c.v, p.v, e.v, r.v, 0))

(***************************************************************************)
(* PhishingAnalysisWorkflow.validateAndFormatResult: coercion, no throw    *)
(* for a value whose properties can be read (anything but null/undefined). *)
(***************************************************************************)
WorkflowConfidenceScore(x) ==
  LET n == ToNumber(x)
      m == IF Truthy(n) THEN n.v ELSE 0      \* Number(x) || 0
  IN Max(0, Min(1000, m))

WorkflowValidateAndFormatResult(rawResult, now) ==
  LET sp == Field(rawResult, "suspiciousPoints")
      ex == Field(rawResult, "explanation")
      rl == Field(rawResult, "riskLevel")
  IN MkResult(
       Truthy(Field(rawResult, "isPhishing")),
       WorkflowConfidenceScore(Field(rawResult, "confidenceScore")),
       IF sp.t = "array" THEN SubSeq(sp.v, 1, Min(10, Len(sp.v))) ELSE <<>>,
       IF Truthy(ex) THEN StringOf(ex) ELSE <<"NO_DETAILED_EXPLANATION">>,
       IF rl.t = "string" /\ LevelName(rl.v) # "none" THEN LevelName(rl.v) ELSE "medium",
       now)

(***************************************************************************)
(* Model text.  The content of an assistant message is described by what   *)
(* the parsers can see of it:                                              *)
(*   kind  "json"     the whole text is one JSON value (json)              *)
(*         "fenced"   a Markdown code fence around one JSON value          *)
(*         "embedded" prose around one JSON object                         *)
(*         "broken"   prose holding { ... } that is not JSON               *)
(*         "prose"    text without braces;  "empty"  the empty text        *)
(*   marker  the text contains ANALYSIS_COMPLETE                           *)
(***************************************************************************)
Text(kind, json, marker) == [kind |-> kind, json |-> json, marker |-> marker]

\* the JSON object of a verdict, with the keys the validators read
VerdictObject(isPhishing, confidenceScore, suspiciousPoints, explanation, riskLevel) ==
  JSObj([isPhishing |-> isPhishing, confidenceScore |-> confidenceScore,
         suspiciousPoints |-> suspiciousPoints, explanation |-> explanation,
         riskLevel |-> riskLevel, error |-> JSUndefined, message |-> JSUndefined])

\* {error: true, message} of parseModelResponse
ErrorObject(message) ==
  JSObj([isPhishing |-> JSUndefined, confidenceScore |-> JSUndefined,
         suspiciousPoints |-> JSUndefined, explanation |-> JSUndefined,
         riskLevel |-> JSUndefined, error |-> JSBool(TRUE), message |-> JSStr(message)])

\* JsonOutputParser.parse: JSON.parse of the text, a code fence stripped first
parserParse(content) ==
  IF content.kind \in {"json", "fenced"} THEN Ok(content.json) ELSE Throws(<<"not JSON">>)

\* content.match(/\{[\s\S]*\}/) followed by JSON.parse(jsonMatch[0])
hasJsonMatch(content) == content.kind \in {"embedded", "broken"}
parseJsonMatch(content) ==
  IF content.kind = "embedded" THEN Ok(content.json) ELSE Throws(<<"not JSON">>)

\* reading a property of null or undefined is a TypeError
CanReadProperties(x) == x.t \notin {"null", "undefined"}

\* PhishingAnalysisWorkflow.parseResult
parseResult(content, now) ==
  LET direct == parserParse(content) IN
  IF direct.ok /\ CanReadProperties(direct.v)
  THEN WorkflowValidateAndFormatResult(direct.v, now)
  ELSE IF hasJsonMatch(content) /\ parseJsonMatch(content).ok
         /\ CanReadProperties(parseJsonMatch(content).v)
    THEN WorkflowValidateAndFormatResult(parseJsonMatch(content).v, now)
  ELSE ParseFallbackResult(now)

\* PhishingDetector.parseModelResponse: the cleaned text of the third attempt
\* is parsed only when the text holds no {...} at all
parseModelResponse(content) ==
  LET direct == parserParse(content) IN
  IF direct.ok THEN direct.v
  ELSE IF hasJsonMatch(content)
    THEN IF parseJsonMatch(content).ok THEN parseJsonMatch(content).v
         ELSE ErrorObject(<<"MODEL_RESPONSE_NOT_VALID_JSON">>)
  ELSE ErrorObject(<<"MODEL_RESPONSE_NOT_VALID_JSON">>)

\* PhishingDetector.parseModelError
parseModelError(error) ==
  LET message == ToLowerCase(error.message) IN
  IF error.name = "none" THEN <<"MODEL_CALL_FAILED_RETRY_LATER">>
  ELSE IF Includes(message, <<"4", "0", "1">>) \/ Includes(message, <<"u", "n", "a", "u", "t", "h", "o", "r", "i", "z", "e", "d">>)
    THEN <<"API_KEY_INVALID">>
  ELSE IF Includes(message, <<"4", "0", "3">>) \/ Includes(message, <<"f", "o", "r", "b", "i", "d", "d", "e", "n">>)
    THEN <<"API_KEY_NOT_PERMITTED">>
  ELSE IF Includes(message, <<"4", "2", "9">>) \/ Includes(message, <<"r", "a", "t", "e", " ", "l", "i", "m", "i", "t">>)
    THEN <<"API_RATE_LIMITED">>
  ELSE IF Includes(message, <<"q", "u", "o", "t", "a">>) \/ Includes(message, <<"b", "i", "l", "l", "i", "n", "g">>)
    THEN <<"API_QUOTA_EXHAUSTED">>
  ELSE IF Includes(message, <<"m", "o", "d", "e", "l">>) /\ Includes(message, <<"n", "o", "t", " ", "f", "o", "u", "n", "d">>)
    THEN <<"MODEL_NOT_FOUND">>
  ELSE IF Includes(message, <<"n", "e", "t", "w", "o", "r", "k">>) \/ Includes(message, <<"f", "e", "t", "c", "h">>)
          \/ Includes(message, <<"t", "i", "m", "e", "o", "u", "t">>)
    THEN <<"NETWORK_FAILED">>
  ELSE IF Includes(message, <<"c", "o", "n", "t", "e", "n", "t">>) /\ Includes(message, <<"p", "o", "l", "i", "c", "y">>)
    THEN <<"CONTENT_POLICY">>
  ELSE IF Includes(message, <<"t", "o", "o", " ", "l", "o", "n", "g">>) \/ Includes(message, <<"t", "o", "k", "e", "n">>)
    THEN <<"CONTENT_TOO_LONG">>
  ELSE error.message

(***************************************************************************)
(* PhishingDetector and analyzePhishingEmail (phishing-detector.ts).       *)
(***************************************************************************)
\* new PhishingDetector(modelConfig, useTools): the error thrown, or the
\* detector with its supportsToolCalling flag.  The workflow is built by
\* new PhishingAnalysisWorkflow(this.model): its useTools parameter takes its
\* default, false.
PhishingDetectorNew(modelConfig, useToolsArg) ==
  LET validation == validateConfig(modelConfig)
      model == createModel(modelConfig)
  IN IF ~validation.valid
     THEN [threw |-> TRUE,
           error |-> Err("PhishingAnalysisError", "INVALID_CONFIG", validation.error),
           supportsToolCalling |-> FALSE, workflowUseTools |-> FALSE]
     ELSE IF model.threw
       THEN [threw |-> TRUE,
             error |-> Err("PhishingAnalysisError", model.error.code, model.error.message),
             supportsToolCalling |-> FALSE, workflowUseTools |-> FALSE]
     ELSE [threw |-> FALSE, error |-> NoError,
           supportsToolCalling |-> useToolsArg /\ model.bindTools,
           workflowUseTools |-> FALSE]

\* toolSettings.toolConfigs[name]?.apiKey
ToolApiKey(toolSettings, name) ==
  IF name \in DOMAIN toolSettings.toolConfigs
  THEN toolSettings.toolConfigs[name].apiKey
  ELSE JSUndefined

\* config?.apiKey && config.apiKey.trim().length > 0
HasUsableApiKey(toolSettings, name) ==
  LET k == ToolApiKey(toolSettings, name) IN Truthy(k) /\ Trim(k.v) # <<>>

\* analyzePhishingEmail: actuallyUseTools
ActuallyUseTools(req, useToolsArg, canUseTools) ==
  /\ useToolsArg
  /\ canUseTools
  /\ req.toolSettings.defined
  /\ Len(req.toolSettings.enabledTools) > 0
  /\ \E i \in 1..Len(req.toolSettings.enabledTools) :
        HasUsableApiKey(req.toolSettings, req.toolSettings.enabledTools[i])

\* PhishingDetector.analyzeEmail up to its first await: what it does with the
\* request ("empty": the error result for an empty mail)
analyzeEmailRoute(detector, emailContent, useToolsArg, toolSettings) ==
  IF emailContent = <<>> \/ Trim(emailContent) = <<>> THEN "empty"
  ELSE IF detector.supportsToolCalling /\ useToolsArg
    THEN IF ~toolSettings.defined \/ Len(toolSettings.enabledTools) = 0
         THEN "without_tools"
         ELSE IF ~Truthy(ToolApiKey(toolSettings, "tavily")) THEN "without_tools"
         ELSE "workflow"
  ELSE "without_tools"

\* an analyzeEmail whose catch block throws the error on
analyzeEmailRethrows(error, now) ==
  [kind |-> "thrown", result |-> NoResult, error |-> error]

\* the catch block of PhishingDetector.analyzeEmail
analyzeEmailCatch(error, now) ==
  [kind |-> "returned",
   result |-> createErrorResult(<<"analysis failed: ">> \o error.message, now),
   error |-> NoError]

\* PhishingDetector.analyzeWithoutTools once the model has answered:
\* reply.ok = FALSE is a rejected invoke
analyzeWithoutToolsResult(reply, now) ==
  IF ~reply.ok THEN createErrorResult(parseModelError(reply.error), now)
  ELSE LET rawResult == parseModelResponse(reply.message.content) IN
       IF rawResult.t = "object" /\ Field(rawResult, "error").t # "undefined"
       THEN createErrorResult(StringOf(Field(rawResult, "message")), now)
       ELSE LET v == validateAndFormatResult(rawResult) IN
            IF v.ok THEN [v.v EXCEPT !.timestamp = now]
            ELSE createErrorResult(v.error, now)

(***************************************************************************)
(* Messages and tools of the workflow (phishing-workflow.ts).              *)
(***************************************************************************)
SystemMessage == [role |-> "system", content |-> [kind |-> "system_prompt"], tool_calls |-> <<>>]
HumanMessage(content) == [role |-> "human", content |-> content, tool_calls |-> <<>>]
AIMessage(content, toolCalls) == [role |-> "ai", content |-> content, tool_calls |-> toolCalls]
ToolMessage(content, toolCallId) ==
  [role |-> "tool", content |-> content, tool_calls |-> <<>>, tool_call_id |-> toolCallId]

\* a tool request of the model; serial is the id the provider gave it
\* (0: the provider gave none)
ToolCall(name, serial) == [name |-> name, id |-> serial]

\* toolCall.id || toolCall.name
ToolCallId(toolCall) ==
  IF toolCall.id # 0 THEN [byName |-> FALSE, name |-> "", id |-> toolCall.id]
  ELSE [byName |-> TRUE, name |-> toolCall.name, id |-> 0]

\* the names of availableTools
availableTools ==
  {"url_analyzer", "domain_checker", "email_header_analyzer", "attachment_scanner"}

\* getToolByName(name) finds a tool
getToolByName(name) == name \in availableTools

\* toolResults[name] = result
SetToolResult(results, name, value) ==
  [n \in (DOMAIN results) \cup {name} |-> IF n = name THEN value ELSE results[n]]

NoToolResults == [n \in {} |-> 0]

\* a loop body that says nothing about a tool it cannot find or that threw
toolCallingStepSilent(acc, toolCall, outcome, round) ==
  IF getToolByName(toolCall.name) /\ outcome = "ok"
  THEN LET res == [tool |-> toolCall.name, round |-> round, id |-> toolCall.id] IN
       [toolResults |-> SetToolResult(acc.toolResults, toolCall.name, res),
        toolMessages |-> Append(acc.toolMessages,
           ToolMessage([kind |-> "tool_result", result |-> res], ToolCallId(toolCall)))]
  ELSE acc

\* the body of the for loop of toolCalling for one toolCall: outcome is what
\* tool.invoke did ("ok": it returned, "throw": it threw); acc holds the
\* toolResults and toolMessages built so far
toolCallingStep(acc, toolCall, outcome, round) ==
  IF getToolByName(toolCall.name)
  THEN IF outcome = "ok"
       THEN LET res == [tool |-> toolCall.name, round |-> round, id |-> toolCall.id] IN
            [toolResults |-> SetToolResult(acc.toolResults, toolCall.name, res),
             toolMessages |-> Append(acc.toolMessages,
                ToolMessage([kind |-> "tool_result", result |-> res], ToolCallId(toolCall)))]
       ELSE [toolResults |-> acc.toolResults,
             toolMessages |-> Append(acc.toolMessages,
                ToolMessage([kind |-> "tool_failed", tool |-> toolCall.name],
                            ToolCallId(toolCall)))]
  ELSE [toolResults |-> acc.toolResults,
        toolMessages |-> Append(acc.toolMessages,
           ToolMessage([kind |-> "tool_missing", tool |-> toolCall.name],
                       ToolCallId(toolCall)))]

RECURSIVE toolCallingLoopBackwards(_, _, _, _)
\* a loop that takes the requests from the last to the first
toolCallingLoopBackwards(acc, toolCalls, outcomes, round) ==
  IF toolCalls = <<>> THEN acc
  ELSE toolCallingStep(toolCallingLoopBackwards(acc, Tail(toolCalls), Tail(outcomes), round),
                       Head(toolCalls), Head(outcomes), round)

RECURSIVE toolCallingLoop(_, _, _, _)
\* for (const toolCall of lastMessage.tool_calls), in order
toolCallingLoop(acc, toolCalls, outcomes, round) ==
  IF toolCalls = <<>> THEN acc
  ELSE toolCallingLoop(toolCallingStep(acc, Head(toolCalls), Head(outcomes), round),
                       Tail(toolCalls), Tail(outcomes), round)

LastMessage(msgs) == msgs[Len(msgs)]

\* a conversation started afresh with the prompt
OnlyPrompt(msgs, prompt) == <<prompt>>

\* [...state.messages, new HumanMessage(prompt)]
WithPrompt(msgs, prompt) == Append(msgs, prompt)

\* shouldUseTool
shouldUseTool(stateUseTools, msgs) ==
  IF ~stateUseTools THEN "no_tools"
  ELSE IF Len(LastMessage(msgs).tool_calls) > 0 THEN "use_tools"
  ELSE "no_tools"

maxToolCalls == 5

\* a routing that has lost the cap on the rounds
shouldContinueWithToolsUncapped(count, msgs) ==
  IF Len(LastMessage(msgs).tool_calls) > 0 THEN "continue_tools"
  ELSE "finish_analysis"

\* a routing whose cap is off by one (> for >=)
shouldContinueWithToolsOffByOne(count, msgs) ==
  IF count > maxToolCalls THEN "finish_analysis"
  ELSE IF Len(LastMessage(msgs).tool_calls) > 0 THEN "continue_tools"
  ELSE "finish_analysis"

\* a routing that looks for the completion marker before the tool requests
shouldContinueWithToolsMarkerFirst(count, msgs) ==
  IF count >= maxToolCalls THEN "finish_analysis"
  ELSE IF LastMessage(msgs).role = "ai" /\ LastMessage(msgs).content.marker
    THEN "finish_analysis"
  ELSE IF Len(LastMessage(msgs).tool_calls) > 0 THEN "continue_tools"
  ELSE "finish_analysis"

\* shouldContinueWithTools
shouldContinueWithTools(count, msgs) ==
  IF count >= maxToolCalls THEN "finish_analysis"
  ELSE IF Len(LastMessage(msgs).tool_calls) > 0 THEN "continue_tools"
  ELSE "finish_analysis"

\* the edges of a graph built with tools, whatever the constructor was given
AfterInitialAnalysisWithTools(ctor, stateUseTools, msgs) ==
  IF shouldUseTool(stateUseTools, msgs) = "use_tools"
  THEN "tool_calling" ELSE "final_analysis"

\* the node the graph runs after initial_analysis (createWorkflow)
AfterInitialAnalysis(ctor, stateUseTools, msgs) ==
  IF ctor
  THEN IF shouldUseTool(stateUseTools, msgs) = "use_tools"
       THEN "tool_calling" ELSE "final_analysis"
  ELSE "END"

\* a routing that goes back to the tools whenever the cap allows it
AfterContinueAnalysisRetries(count, msgs) ==
  IF count < maxToolCalls THEN "tool_calling" ELSE "final_analysis"

\* the node the graph runs after continue_analysis
AfterContinueAnalysis(count, msgs) ==
  IF shouldContinueWithTools(count, msgs) = "continue_tools"
  THEN "tool_calling" ELSE "final_analysis"

\* a final analysis that always takes the branch with tool results
hasValidToolResultsAlways(results) == TRUE

\* finalAnalysis: hasValidToolResults
hasValidToolResults(results) == Cardinality(DOMAIN results) > 0

\* state.messages.filter((msg) => msg._getType() === 'ai').pop()
HasAIMessage(msgs) == \E i \in 1..Len(msgs) : msgs[i].role = "ai"
LastAIMessage(msgs) ==
  msgs[CHOOSE i \in 1..Len(msgs) :
         msgs[i].role = "ai" /\ \A j \in (i + 1)..Len(msgs) : msgs[j].role # "ai"]

(***************************************************************************)
(* Inputs: the requests, and what the model and the tools may answer.      *)
(***************************************************************************)
Providers == {"openai", "anthropic", "google", "mistral", ""}
ModelIds == {<<>>, <<" ">>, <<"g", "p", "t", "-", "4", "o">>}
ApiKeys == {<<>>, <<" ">>, <<"s", "k", "-", "a", "b", "c">>, <<"s", "k", "-", "a", "n", "t", "-", "a", "b", "c">>, <<"A", "I", "z", "a", "S", "y", "A", "-", "1", "2", "3", "4">>}
Temperatures == {JSNum(0 - 1), JSNum(0), JSNum(20), JSNum(21), JSNaN}
UseToolsOptions == {JSUndefined, JSBool(TRUE), JSBool(FALSE)}

OpenAIKey == <<"s", "k", "-", "a", "b", "c">>
GoodModelId == <<"g", "p", "t", "-", "4", "o">>

BaseSettings ==
  [provider |-> "openai", model |-> GoodModelId, apiKey |-> OpenAIKey,
   temperature |-> JSNum(0), useTools |-> JSUndefined]

\* the settings of a request: every provider with every key, every model id
\* with every temperature, every useTools flag
ModelSettings ==
  { [BaseSettings EXCEPT !.provider = p, !.apiKey = k] : p \in Providers, k \in ApiKeys }
  \cup { [BaseSettings EXCEPT !.model = m, !.temperature = t] :
           m \in ModelIds, t \in Temperatures }
  \cup { [BaseSettings EXCEPT !.useTools = u] : u \in UseToolsOptions }

Emails == {<<>>, <<" ", "\n">>, <<"H", "i">>}

ToolConfig(apiKey) == [apiKey |-> apiKey]
TavilyKey == JSStr(<<"t", "v", "l", "y", "-", "1">>)
BlankKey == JSStr(<<" ">>)
NoConfigs == [n \in {} |-> ToolConfig(JSUndefined)]

ToolSettingsOptions ==
  { [defined |-> FALSE, enabledTools |-> <<>>, toolConfigs |-> NoConfigs],
    [defined |-> TRUE, enabledTools |-> <<>>, toolConfigs |-> NoConfigs],
    [defined |-> TRUE, enabledTools |-> <<"tavily">>,
     toolConfigs |-> [n \in {"tavily"} |-> ToolConfig(TavilyKey)]],
    [defined |-> TRUE, enabledTools |-> <<"tavily">>,
     toolConfigs |-> [n \in {"tavily"} |-> ToolConfig(BlankKey)]],
    [defined |-> TRUE, enabledTools |-> <<"tavily">>,
     toolConfigs |-> [n \in {"tavily"} |-> ToolConfig(JSUndefined)]],
    [defined |-> TRUE, enabledTools |-> <<"duckduckgo">>,
     toolConfigs |-> [n \in {"duckduckgo"} |-> ToolConfig(TavilyKey)]],
    [defined |-> TRUE, enabledTools |-> <<"tavily", "duckduckgo">>,
     toolConfigs |-> [n \in {"tavily", "duckduckgo"} |->
                        IF n = "tavily" THEN ToolConfig(BlankKey) ELSE ToolConfig(TavilyKey)]] }

BaseEmail == <<"H", "i">>
BaseToolSettings ==
  [defined |-> TRUE, enabledTools |-> <<"tavily">>,
   toolConfigs |-> [n \in {"tavily"} |-> ToolConfig(TavilyKey)]]

\* every setting with the base email and tools, and every email with every
\* tool setting and every useTools flag
Requests ==
  { [emailContent |-> BaseEmail, modelSettings |-> m, toolSettings |-> BaseToolSettings] :
      m \in ModelSettings }
  \cup { [emailContent |-> e, modelSettings |-> [BaseSettings EXCEPT !.useTools = u],
          toolSettings |-> ts] :
           e \in Emails, u \in UseToolsOptions, ts \in ToolSettingsOptions }

NoRequest == [emailContent |-> <<>>]

GoodVerdict ==
  VerdictObject(JSBool(TRUE), JSNum(920), JSArr(<<JSStr(<<"l", "i", "n", "k">>)>>),
                JSStr(<<"b", "a", "d">>), JSStr(<<"h", "i", "g", "h">>))

\* a verdict whose fields fail the detector's validation
BadVerdict ==
  VerdictObject(JSStr(<<"m", "a", "y", "b", "e">>), JSNum(1500), JSArr(<<>>), JSStr(<<>>), JSStr(<<"b", "o", "g", "u", "s">>))

ProseText == Text("prose", JSUndefined, FALSE)
EmptyText == Text("empty", JSUndefined, FALSE)

FinalTexts ==
  { Text("json", GoodVerdict, FALSE), Text("embedded", GoodVerdict, FALSE),
    Text("json", BadVerdict, FALSE), Text("broken", JSUndefined, FALSE), ProseText }

ContinueTexts == { Text("prose", JSUndefined, TRUE), Text("json", GoodVerdict, FALSE) }

\* the shapes of the tool requests of one response: name and whether the
\* provider gives the call an id
Want(name, hasId) == [name |-> name, hasId |-> hasId]
ToolRequestShapes ==
  { <<Want("url_analyzer", TRUE)>>,
    <<Want("ghost_tool", FALSE), Want("domain_checker", FALSE)>>,
    <<Want("url_analyzer", TRUE), Want("ghost_tool", TRUE), Want("url_analyzer", TRUE)>> }

\* the tool_calls of the n-th model response for a shape
ToolCallsOf(shape, n) ==
  [i \in 1..Len(shape) |->
     ToolCall(shape[i].name, IF shape[i].hasId THEN n * 10 + i ELSE 0)]

ModelErrors ==
  { Err("Error", "", <<"4", "0", "1", " ", "U", "n", "a", "u", "t", "h", "o", "r", "i", "z", "e", "d">>), Err("Error", "", <<"s", "o", "c", "k", "e", "t", " ", "h", "a", "n", "g", " ", "u", "p">>) }

\* no invoke has settled yet
NoReply == [ok |-> FALSE, error |-> NoError, message |-> AIMessage(EmptyText, <<>>)]

Rejected(error) == [ok |-> FALSE, error |-> error, message |-> AIMessage(EmptyText, <<>>)]
Answered(message) == [ok |-> TRUE, error |-> NoError, message |-> message]

\* What the n-th invoke of the model can give: a rejection, an answer without
\* tool requests, or, for a model with tools bound, an answer with tool requests.
ModelOutcomes(bound, texts, n) ==
  { Rejected(e) : e \in ModelErrors }
  \cup { Answered(AIMessage(t, <<>>)) : t \in texts }
  \cup { Answered(AIMessage(EmptyText, ToolCallsOf(shape, n))) :
           shape \in { r \in ToolRequestShapes : bound /\ Len(r) <= MaxCallsPerReply } }

\* the text that comes with the tool requests of an answer to the continue
\* prompt: a lone request comes with the words ANALYSIS_COMPLETE, several
\* requests come without text
RequestText(shape) ==
  IF Len(shape) = 1 THEN Text("prose", JSUndefined, TRUE) ELSE EmptyText

\* What the invoke of continue_analysis can give, as the n-th invoke
ContinueOutcomes(bound, n) ==
  { Rejected(e) : e \in ModelErrors }
  \cup { Answered(AIMessage(t, <<>>)) : t \in ContinueTexts }
  \cup { Answered(AIMessage(RequestText(shape), ToolCallsOf(shape, n))) :
           shape \in { r \in ToolRequestShapes : bound /\ Len(r) <= MaxCallsPerReply } }

MaxToolThrows == 1       \* tool invocations that throw in one run

ToolThrows(msgs) ==
  Cardinality({ i \in 1..Len(msgs) :
                  msgs[i].role = "tool" /\ msgs[i].content.kind = "tool_failed" })

CountThrows(outcomes) == Cardinality({ i \in 1..Len(outcomes) : outcomes[i] = "throw" })

\* what the invocations of the requested tools can do, one outcome per call
ToolOutcomes(toolCalls, msgs) ==
  { o \in [1..Len(toolCalls) -> {"ok", "throw"}] :
      /\ \A i \in 1..Len(toolCalls) : ~getToolByName(toolCalls[i].name) => o[i] = "ok"
      /\ ToolThrows(msgs) + CountThrows(o) <= MaxToolThrows }

(***************************************************************************)
(* The state machine.                                                      *)
(***************************************************************************)
\* no function is called on its own during a request
NoCall == [fn |-> "none"]
NotCalled == [done |-> FALSE]
PureUnchanged == UNCHANGED <<pureCall, pureResult, processEnv, runs, hook>>

\* the ReAct variant is not running and the hook is as mounted
Runs == {1, 2}
NoTool == [built |-> FALSE, apiKey |-> <<>>]
IdleRun ==
  [pc |-> "idle", tavilyApiKey |-> <<>>, tool |-> NoTool, messages |-> <<>>,
   steps |-> 0, trace |-> <<>>, result |-> NoResult, thrown |-> <<>>]
NoCalls == <<>>
MountedHook ==
  [analysisState |-> [status |-> "idle", progress |-> JSUndefined, by |-> 0],
   currentStep |-> "",
   abortController |-> 0,
   calls |-> NoCalls,
   timers |-> 0,
   toast |-> ""]

Init ==
  /\ pc = "start"
  /\ entry = "none"
  /\ request = NoRequest
  /\ ctorUseTools = FALSE
  /\ messages = <<>>
  /\ toolResults = NoToolResults
  /\ finalResult = NoResult
  /\ useTools = FALSE
  /\ currentStep = "initial_analysis"
  /\ toolCallCount = 0
  /\ clock = 0
  /\ modelCalls = 0
  /\ lastReply = NoReply
  /\ executed = <<>>
  /\ thrown = NoError
  /\ result = NoResult
  /\ pureCall = NoCall
  /\ pureResult = NotCalled
  /\ aborted = FALSE
  /\ processEnv = JSUndefined
  /\ runs = [r \in Runs |-> IdleRun]
  /\ hook = MountedHook

WorkflowStateUnchanged ==
  UNCHANGED <<messages, toolResults, finalResult, currentStep, toolCallCount>>

\* request.modelSettings.useTools ?? true
RequestedUseTools(req) ==
  IF req.modelSettings.useTools.t = "undefined" THEN TRUE ELSE req.modelSettings.useTools.v

ModelConfigOf(req) ==
  [provider |-> req.modelSettings.provider, model |-> req.modelSettings.model,
   temperature |-> req.modelSettings.temperature, apiKey |-> req.modelSettings.apiKey]

\* analyzePhishingEmail(request), up to the first await of analyzeEmail: the
\* detector is constructed, actuallyUseTools is decided, and analyzeEmail
\* either returns at once, or awaits the model in analyzeWithoutTools, or
\* calls workflow.analyze(emailContent, tavilyConfig.apiKey), whose second
\* parameter (useTools) so receives a non-empty string, which is truthy.
analyzePhishingEmail ==
  /\ pc = "start"
  /\ entry' = "api"
  /\ \E req \in Requests :
     /\ request' = req
     /\ LET detector == PhishingDetectorNew(ModelConfigOf(req), RequestedUseTools(req))
            actuallyUseTools ==
              ActuallyUseTools(req, RequestedUseTools(req), detector.supportsToolCalling)
            route == analyzeEmailRoute(detector, req.emailContent, actuallyUseTools,
                                       req.toolSettings)
        IN IF detector.threw
           THEN /\ result' = InitErrorResult(detector.error.message, clock + 1)
                /\ clock' = clock + 1
                /\ pc' = "returned"
                /\ UNCHANGED <<ctorUseTools, useTools>>
           ELSE IF route = "empty"
             THEN /\ result' = createErrorResult(<<"EMAIL_CONTENT_EMPTY">>, clock + 1)
                  /\ clock' = clock + 1
                  /\ pc' = "returned"
                  /\ UNCHANGED <<ctorUseTools, useTools>>
           ELSE IF route = "workflow"
             THEN /\ pc' = "initial_analysis"
                  /\ ctorUseTools' = detector.workflowUseTools
                  /\ useTools' = TRUE
                  /\ UNCHANGED <<result, clock>>
           ELSE /\ pc' = "analyzeWithoutTools"
                /\ UNCHANGED <<result, clock, ctorUseTools, useTools>>
  /\ WorkflowStateUnchanged
  /\ UNCHANGED <<modelCalls, lastReply, executed, thrown>>
  /\ PureUnchanged
  /\ UNCHANGED aborted

\* new PhishingAnalysisWorkflow(model, ctor).analyze(emailContent, use): the
\* class used on its own, with both flags free
newWorkflowAnalyze(ctor, use) ==
  /\ pc = "start"
  /\ entry' = "workflow"
  /\ ctorUseTools' = ctor
  /\ useTools' = use
  /\ pc' = "initial_analysis"
  /\ WorkflowStateUnchanged
  /\ UNCHANGED <<request, clock, modelCalls, lastReply, executed, thrown, result>>
  /\ PureUnchanged
  /\ UNCHANGED aborted

\* analyzeWithoutTools: this.model.invoke(messages) and what follows it
analyzeWithoutTools(reply) ==
  /\ pc = "analyzeWithoutTools"
  /\ modelCalls < MaxModelCalls
  /\ modelCalls' = modelCalls + 1
  /\ lastReply' = reply
  /\ result' = analyzeWithoutToolsResult(reply, clock + 1)
  /\ clock' = clock + 1
  /\ pc' = "returned"
  /\ WorkflowStateUnchanged
  /\ UNCHANGED <<entry, request, ctorUseTools, useTools, executed, thrown>>
  /\ PureUnchanged
  /\ UNCHANGED aborted

\* the node initial_analysis, and the edge taken after it
initialAnalysis(reply) ==
  /\ pc = "initial_analysis"
  /\ modelCalls < MaxModelCalls
  /\ modelCalls' = modelCalls + 1
  /\ lastReply' = reply
  /\ executed' = Append(executed, "initial_analysis")
  /\ LET local == <<SystemMessage, HumanMessage([kind |-> "analysis_prompt"])>>
         response == reply.message
     IN IF ~reply.ok
        THEN /\ thrown' = Err("Error", "", <<"initial analysis failed: ">> \o reply.error.message)
             /\ pc' = "threw"
             /\ UNCHANGED <<messages, finalResult, currentStep, toolCallCount, clock>>
        ELSE IF useTools /\ Len(response.tool_calls) > 0
          THEN /\ messages' = Append(local, response)
               /\ currentStep' = "tool_calling"
               /\ toolCallCount' = toolCallCount + 1
               /\ pc' = AfterInitialAnalysis(ctorUseTools, useTools, messages')
               /\ UNCHANGED <<finalResult, clock, thrown>>
        ELSE /\ messages' = Append(local, response)
             /\ finalResult' = parseResult(response.content, clock + 1)
             /\ clock' = clock + 1
             /\ currentStep' = "completed"
             /\ pc' = AfterInitialAnalysis(ctorUseTools, useTools, messages')
             /\ UNCHANGED <<toolCallCount, thrown>>
  /\ UNCHANGED <<entry, request, ctorUseTools, useTools, toolResults, result>>
  /\ PureUnchanged
  /\ UNCHANGED aborted

\* the node tool_calling; the edge after it leads to continue_analysis
toolCalling ==
  /\ pc = "tool_calling"
  /\ executed' = Append(executed, "tool_calling")
  /\ LET lastMessage == LastMessage(messages) IN
       \E outcomes \in ToolOutcomes(lastMessage.tool_calls, messages) :
         LET done == toolCallingLoop([toolResults |-> toolResults, toolMessages |-> <<>>],
                                     lastMessage.tool_calls, outcomes, toolCallCount)
         IN /\ messages' = messages \o done.toolMessages
            /\ toolResults' = done.toolResults
  /\ currentStep' = "continue_analysis"
  /\ pc' = "continue_analysis"
  /\ UNCHANGED <<entry, request, ctorUseTools, useTools, finalResult, toolCallCount,
                 clock, modelCalls, lastReply, thrown, result>>
  /\ PureUnchanged
  /\ UNCHANGED aborted

\* the node continue_analysis, and the edge taken after it
continueAnalysis(reply) ==
  /\ pc = "continue_analysis"
  /\ modelCalls < MaxModelCalls
  /\ modelCalls' = modelCalls + 1
  /\ lastReply' = reply
  /\ executed' = Append(executed, "continue_analysis")
  /\ LET local == WithPrompt(messages,
                    HumanMessage([kind |-> "continue_prompt", toolResults |-> toolResults]))
         response == reply.message
     IN IF ~reply.ok
        THEN /\ currentStep' = "final_analysis"
             /\ UNCHANGED <<messages, toolCallCount>>
        ELSE IF Len(response.tool_calls) > 0
          THEN /\ messages' = Append(local, response)
               /\ currentStep' = "tool_calling"
               /\ toolCallCount' = toolCallCount + 1
        ELSE /\ messages' = Append(local, response)
             /\ currentStep' = "final_analysis"
             /\ UNCHANGED toolCallCount
  /\ pc' = AfterContinueAnalysis(toolCallCount', messages')
  /\ UNCHANGED <<entry, request, ctorUseTools, useTools, toolResults, finalResult,
                 clock, thrown, result>>
  /\ PureUnchanged
  /\ UNCHANGED aborted

\* the node final_analysis without tool results: no model call, the last AI
\* message is parsed again
finalAnalysisWithoutToolResults ==
  /\ pc = "final_analysis"
  /\ ~hasValidToolResults(toolResults)
  /\ executed' = Append(executed, "final_analysis")
  /\ finalResult' = IF HasAIMessage(messages)
                    THEN parseResult(LastAIMessage(messages).content, clock + 1)
                    ELSE BasicFallbackResult(clock + 1)
  /\ clock' = clock + 1
  /\ currentStep' = "completed"
  /\ pc' = "END"
  /\ UNCHANGED <<entry, request, ctorUseTools, useTools, messages, toolResults,
                 toolCallCount, modelCalls, lastReply, thrown, result>>
  /\ PureUnchanged
  /\ UNCHANGED aborted

\* the node final_analysis with tool results: one more model call
finalAnalysis(reply) ==
  /\ pc = "final_analysis"
  /\ hasValidToolResults(toolResults)
  /\ modelCalls < MaxModelCalls
  /\ modelCalls' = modelCalls + 1
  /\ lastReply' = reply
  /\ executed' = Append(executed, "final_analysis")
  /\ LET finalMessages ==
           WithPrompt(messages,
             HumanMessage([kind |-> "tool_analysis_prompt", toolResults |-> toolResults]))
     IN IF ~reply.ok
        THEN /\ thrown' = Err("Error", "", <<"final analysis failed: ">> \o reply.error.message)
             /\ pc' = "threw"
             /\ UNCHANGED <<messages, finalResult, currentStep, clock>>
        ELSE /\ messages' = Append(finalMessages, reply.message)
             /\ finalResult' = parseResult(reply.message.content, clock + 1)
             /\ clock' = clock + 1
             /\ currentStep' = "completed"
             /\ pc' = "END"
             /\ UNCHANGED thrown
  /\ UNCHANGED <<entry, request, ctorUseTools, useTools, toolResults, toolCallCount, result>>
  /\ PureUnchanged
  /\ UNCHANGED aborted

\* PhishingAnalysisWorkflow.analyze after compiledWorkflow.invoke settled:
\* the result, or the Error it throws
analyzeOutcome(graphEnded, final, error) ==
  IF graphEnded
  THEN IF final.set
       THEN [kind |-> "returned", result |-> final, error |-> NoError]
       ELSE [kind |-> "thrown", result |-> NoResult,
             error |-> Err("Error", "", <<"workflow failed: ", "no result produced">>)]
  ELSE [kind |-> "thrown", result |-> NoResult,
        error |-> Err("Error", "", <<"workflow failed: ">> \o error.message)]

\* what the caller of the entry point gets: analyzeEmail awaits
\* workflow.analyze inside its try block
callerOutcome(via, outcome, now) ==
  IF via = "api" /\ outcome.kind = "thrown"
  THEN analyzeEmailCatch(outcome.error, now)
  ELSE outcome

\* the graph has ended or a node has thrown: analyze returns or throws, and
\* on the api path analyzeEmail passes the result on or catches the error
analyzeSettles ==
  /\ pc \in {"END", "threw"}
  /\ LET out == callerOutcome(entry, analyzeOutcome(pc = "END", finalResult, thrown),
                              clock + 1)
     IN /\ pc' = out.kind
        /\ result' = out.result
        /\ thrown' = out.error
        /\ clock' = IF out.result.set /\ out.result # finalResult THEN clock + 1 ELSE clock
  /\ WorkflowStateUnchanged
  /\ UNCHANGED <<entry, request, ctorUseTools, useTools, modelCalls, lastReply, executed>>
  /\ PureUnchanged
  /\ UNCHANGED aborted

\* usePhishingAnalysis.cancelAnalysis while the request sent by analyzeEmail
\* is being answered: abortController.abort().  The request itself is left
\* as it is: analyzeEmailContent(request) was given no signal.
cancelAnalysis ==
  /\ entry = "api"
  /\ pc \notin {"start", "pure", "returned", "thrown"}
  /\ ~aborted
  /\ aborted' = TRUE
  /\ WorkflowStateUnchanged
  /\ UNCHANGED <<pc, entry, request, ctorUseTools, useTools, clock, modelCalls, lastReply,
                 executed, thrown, result>>
  /\ PureUnchanged

\* a model with tools bound is the only one that answers with tool requests
Bound == ctorUseTools

Next ==
  \/ analyzePhishingEmail
  \/ \E ctor \in BOOLEAN, use \in BOOLEAN : newWorkflowAnalyze(ctor, use)
  \/ \E reply \in ModelOutcomes(FALSE, FinalTexts, modelCalls + 1) : analyzeWithoutTools(reply)
  \/ \E reply \in ModelOutcomes(Bound, FinalTexts, modelCalls + 1) : initialAnalysis(reply)
  \/ toolCalling
  \/ \E reply \in ContinueOutcomes(Bound, modelCalls + 1) : continueAnalysis(reply)
  \/ finalAnalysisWithoutToolResults
  \/ \E reply \in ModelOutcomes(Bound, FinalTexts, modelCalls + 1) : finalAnalysis(reply)
  \/ analyzeSettles
  \/ cancelAnalysis

Spec == Init /\ [][Next]_vars

\* Every step of a request is eventually taken: the awaited promises settle.
LiveSpec == Spec /\ WF_vars(Next)

(***************************************************************************)
(* What the states say about a run.                                        *)
(***************************************************************************)
AIMessages(msgs) == SelectSeqBy(msgs, [i \in 1..Len(msgs) |-> msgs[i].role = "ai"])

\* the response of initial_analysis: messages = [system, human, response]
HasFirstResponse == Len(messages) >= 3
FirstResponse == messages[3]

\* tools enabled at construction and at analyze
ToolsEnabled == ctorUseTools /\ useTools

\* so far every invocation of the model was answered, and answered with at
\* least one tool request: every invoke that settled left its response in
\* the conversation
EveryReplyRequestsTools ==
  /\ modelCalls >= 1
  /\ lastReply.ok
  /\ Len(AIMessages(messages)) = modelCalls
  /\ \A i \in 1..Len(messages) :
        messages[i].role = "ai" => Len(messages[i].tool_calls) > 0

\* C1: with tools enabled and a model that answers every invocation with at
\* least one tool request and never errors, the run makes at most
\* maxToolCalls + 2 = 7 model invocations and reaches the completed step.
C1_ToolLoopTerminates ==
  /\ []((ToolsEnabled /\ EveryReplyRequestsTools) => modelCalls <= maxToolCalls + 2)
  /\ ((ToolsEnabled /\ EveryReplyRequestsTools)
        ~> (currentStep = "completed" \/ ~EveryReplyRequestsTools))

\* the model asked for tools at every one of the invocations and the run
\* completed at the cap
C1_Witness ==
  /\ ToolsEnabled /\ EveryReplyRequestsTools
  /\ currentStep = "completed"
  /\ toolCallCount = maxToolCalls
  /\ modelCalls = maxToolCalls + 1

WellFormedResult(r) ==
  /\ r.set
  /\ r.isPhishing \in BOOLEAN
  /\ r.confidenceScore \in 0..1000
  /\ r.riskLevel \in {"low", "medium", "high"}
  /\ r.timestamp \in 1..clock

\* C2: analyzePhishingEmail never lets an exception escape: whatever the
\* request and whatever fails, the call is never left with an error raised to
\* its caller, it can always go on until it returns, and what it returns is a
\* PhishingDetectionResult.
C2_NeverThrows ==
  entry = "api" =>
    /\ pc # "thrown"
    /\ pc # "returned" => ENABLED Next
    /\ pc = "returned" => WellFormedResult(result)

\* a rejected model invocation inside the workflow, caught by analyzeEmail
C2_Witness ==
  /\ entry = "api"
  /\ pc = "returned"
  /\ executed = <<"initial_analysis">>
  /\ ~lastReply.ok
  /\ WellFormedResult(result)

FirstResponseWithoutToolRequests ==
  HasFirstResponse /\ Len(FirstResponse.tool_calls) = 0

\* C3: when the first model response carries no tool request, the run is at
\* the completed step from then on and the model is invoked exactly once in
\* the whole run, with tools enabled or not.
C3_OneInvocationWithoutToolRequests ==
  FirstResponseWithoutToolRequests =>
    /\ modelCalls = 1
    /\ currentStep = "completed"
    /\ pc \in {"final_analysis", "END", "returned"}
    /\ finalResult.set

\* tools enabled, no tool request: final_analysis has run too and the graph
\* has ended
C3_Witness ==
  /\ FirstResponseWithoutToolRequests
  /\ ToolsEnabled
  /\ executed = <<"initial_analysis", "final_analysis">>
  /\ pc = "END"
  /\ modelCalls = 1

\* C4: the round counter never exceeds the cap maxToolCalls = 5 and no step
\* decreases it.
C4_RoundCounterBounded ==
  /\ [](toolCallCount \in 0..maxToolCalls)
  /\ [][toolCallCount' >= toolCallCount]_vars

\* the cap is reached while the model still asks for tools
C4_Witness ==
  /\ toolCallCount = maxToolCalls
  /\ pc = "final_analysis"
  /\ Len(LastMessage(messages).tool_calls) > 0

\* C5: whenever the graph reaches its end finalResult is set, for every
\* combination of the two useTools flags, and the result is computed once:
\* no step replaces finalResult after it was set.
C5_ResultComputedOnce ==
  /\ [](pc = "END" => finalResult.set)
  /\ [][finalResult.set => finalResult' = finalResult]_vars

\* the detector refused the configuration of the request
ConfigRejected ==
  /\ entry = "api"
  /\ PhishingDetectorNew(ModelConfigOf(request), RequestedUseTools(request)).threw

EmptyInput ==
  /\ entry = "api"
  /\ ~ConfigRejected
  /\ Trim(request.emailContent) = <<>>

\* the request was answered by analyzeWithoutTools
WithoutToolsPath == entry = "api" /\ modelCalls >= 1 /\ executed = <<>>

\* the request ran the graph
WorkflowPath == executed # <<>>

\* analyzeWithoutTools gets a verdict out of the text: parseModelResponse
\* gives no error object and the fields pass validateAndFormatResult
DetectorAccepts(content) ==
  LET rawResult == parseModelResponse(content) IN
  /\ ~(rawResult.t = "object" /\ Field(rawResult, "error").t # "undefined")
  /\ validateAndFormatResult(rawResult).ok

\* parseResult finds JSON in the text, as a whole or as a {...} block
Recoverable(content) ==
  \/ parserParse(content).ok /\ CanReadProperties(parserParse(content).v)
  \/ /\ hasJsonMatch(content)
     /\ parseJsonMatch(content).ok
     /\ CanReadProperties(parseJsonMatch(content).v)

\* the result handed to the caller was built by a failure path
FailurePath ==
  \/ ConfigRejected
  \/ EmptyInput
  \/ WithoutToolsPath /\ (~lastReply.ok \/ ~DetectorAccepts(lastReply.message.content))
  \/ WorkflowPath /\ (~finalResult.set \/ ~Recoverable(LastAIMessage(messages).content))

\* the result handed to the caller was parsed from a verdict of the model
VerdictParsed ==
  \/ WithoutToolsPath /\ lastReply.ok /\ DetectorAccepts(lastReply.message.content)
  \/ WorkflowPath /\ finalResult.set /\ Recoverable(LastAIMessage(messages).content)

\* C6: every result of a failure path has isError = true and every result
\* parsed from a verdict of the model has isError false or absent.
C6_FailuresAreFlagged ==
  pc = "returned" =>
    /\ FailurePath => result.isError = JSBool(TRUE)
    /\ VerdictParsed => result.isError \in {JSBool(FALSE), JSUndefined}

\* isPhishing true, score 50, medium, one sentinel point, an explanation
ConservativeFallback(r) ==
  /\ r.set
  /\ r.isPhishing = TRUE
  /\ r.confidenceScore = 500
  /\ r.riskLevel = "medium"
  /\ Len(r.suspiciousPoints) = 1
  /\ r.explanation # <<>>

\* the text the result was to be parsed from is the latest response, and it
\* is plain prose
FinalTextIsProse ==
  /\ modelCalls >= 1
  /\ lastReply.ok
  /\ lastReply.message.content.kind = "prose"
  /\ WorkflowPath => LastAIMessage(messages) = lastReply.message

\* C7: when the final text of the model is plain prose the result returned is
\* the conservative fallback, on the path through the graph and on the path
\* without tools alike.
C7_ProseGivesConservativeFallback ==
  (pc = "returned" /\ FinalTextIsProse) => ConservativeFallback(result)

\* what tool_calling leaves in the conversation for the i-th request of the
\* round that starts in this state
ToolRoundMessage(i) == messages'[Len(messages) + i]

FinalInvocationFailed ==
  /\ executed # <<>>
  /\ executed[Len(executed)] = "final_analysis"
  /\ hasValidToolResults(toolResults)
  /\ ~lastReply.ok

\* an earlier response of the model holds a verdict
EarlierAnswers ==
  { i \in 1..Len(messages) : messages[i].role = "ai" /\ Recoverable(messages[i].content) }

SameVerdict(r, q) ==
  /\ r.set /\ q.set
  /\ r.isPhishing = q.isPhishing
  /\ r.confidenceScore = q.confidenceScore
  /\ r.suspiciousPoints = q.suspiciousPoints
  /\ r.explanation = q.explanation
  /\ r.riskLevel = q.riskLevel

\* C9: when the model invocation of final_analysis fails after tool results
\* were collected, the run returns a result: the answer parsed from an
\* earlier response of the model if there is one, a connection-error
\* fallback result otherwise.
C9_FinalFailureDegrades ==
  (FinalInvocationFailed /\ pc \in {"returned", "thrown"}) =>
    /\ pc = "returned"
    /\ result.set
    /\ EarlierAnswers # {} =>
         \E i \in EarlierAnswers : SameVerdict(result, parseResult(messages[i].content, 0))
    /\ EarlierAnswers = {} => ~result.isPhishing /\ result.confidenceScore = 0

\* unsupported provider, empty model id, empty or wrongly shaped API key,
\* temperature below 0 or above 2
InvalidConfiguration(config) ==
  \/ config.provider \notin {"openai", "anthropic", "google"}
  \/ Trim(config.model) = <<>>
  \/ Trim(config.apiKey) = <<>>
  \/ ~validateApiKeyFormat(config.provider, config.apiKey).valid
  \/ config.temperature.t = "number"
       /\ (config.temperature.v < 0 \/ config.temperature.v > 20)

\* C10: with an invalid model configuration the request makes no model
\* invocation and ends at once with the configuration error result.
C10_InvalidConfigurationFailsFirst ==
  (entry = "api" /\ InvalidConfiguration(ModelConfigOf(request))) =>
    /\ modelCalls = 0
    /\ executed = <<>>
    /\ pc = "returned"
    /\ result = InitErrorResult(
         PhishingDetectorNew(ModelConfigOf(request), RequestedUseTools(request)).error.message,
         result.timestamp)

\* a temperature above 2 was refused
C10_Witness ==
  /\ entry = "api"
  /\ request.modelSettings.temperature = JSNum(21)
  /\ pc = "returned"
  /\ modelCalls = 0
  /\ result.set

(***************************************************************************)
(* Functions of the program called on their own: the call is drawn from a  *)
(* bounded set of arguments, one step applies the function.                *)
(***************************************************************************)
Call(fn, arg) == [fn |-> fn, arg |-> arg]
Returned(v) == [done |-> TRUE, v |-> v]

\* confidenceScore values a model may supply (numbers in tenths)
ScoreNumbers == {0 - 100, 0 - 6, 0 - 5, 0 - 1, 0, 4, 5, 494, 495, 876, 995, 1000, 1001, 1004, 1500}
ScoreTexts ==
  { <<"8", "7", ".", "6">>, <<"-", "1", "0">>, <<"1", "5", "0">>, <<"1", "0", "0">>,
    <<" ", "4", "2", " ">>, <<"0", ".", "5">>, <<>>, <<"a", "b", "c">>,
    <<"1", "2", "a", "b", "c">>, <<"h", "i", "g", "h">> }
ScoreInputs ==
  { JSNum(n) : n \in ScoreNumbers } \cup { JSStr(t) : t \in ScoreTexts }
  \cup { JSNaN, JSUndefined, JSNull, JSBool(TRUE), JSArr(<<>>),
         JSArr(<<JSStr(<<"x">>)>>) }

\* a verdict of the model that is well formed but for its confidenceScore
VerdictWithScore(score) ==
  VerdictObject(JSBool(TRUE), score, JSArr(<<JSStr(<<"l", "i", "n", "k">>)>>),
                JSStr(<<"b", "a", "d">>), JSStr(<<"h", "i", "g", "h">>))

\* riskLevel values a model may supply
RiskTexts ==
  { <<"l", "o", "w">>, <<"L", "O", "W">>, <<"U+4F4E">>, <<"m", "e", "d", "i", "u", "m">>,
    <<"U+9AD8">>, <<"b", "o", "g", "u", "s">>, <<"H", "i", "g", "h">>, <<"U+4E2D">>,
    <<"h", "i", "g", "h", " ", "r", "i", "s", "k">>, <<"U+4E2D", "U+9AD8">>, <<>> }
RiskInputs ==
  { JSStr(t) : t \in RiskTexts } \cup { JSNum(10), JSNull, JSBool(TRUE) }

\* a verdict of the model that is well formed but for its riskLevel
VerdictWithRisk(level) ==
  VerdictObject(JSBool(TRUE), JSNum(900), JSArr(<<JSStr(<<"l", "i", "n", "k">>)>>),
                JSStr(<<"b", "a", "d">>), level)

\* suspiciousPoints and explanation values a model may supply
ManyPoints == 11
PointsInputs ==
  { JSArr(<<JSStr(<<"l", "i", "n", "k">>)>>),
    JSArr(<<JSStr(<<" ", "l", "i", "n", "k", " ">>), JSStr(<<" ">>), JSNum(10)>>),
    JSArr(<<>>),
    JSArr([i \in 1..ManyPoints |-> JSStr(<<"p">>)]),
    JSStr(<<"a", "\n", " ", "b", "\n">>),
    JSStr([i \in 1..(2 * ManyPoints - 1) |-> IF i % 2 = 1 THEN "p" ELSE "\n"]),
    JSStr(<<" ", " ">>),
    JSStr(<<>>) }
ExplanationInputs ==
  { JSStr(<<"b", "a", "d">>),
    JSStr(<<" ", "b", "a", "d", "\n">>),
    JSStr([i \in 1..MaxExplanationLength |-> "a"]),
    JSStr([i \in 1..(MaxExplanationLength + 1) |-> "a"]),
    JSStr([i \in 1..(MaxExplanationLength + 5) |->
             IF i = MaxExplanationLength THEN " " ELSE "a"]) }
RawVerdicts ==
  { VerdictObject(JSBool(TRUE), score, points, explanation, level) :
      score \in {JSNum(876), JSStr(<<"1", "0", "0">>)},
      points \in PointsInputs,
      explanation \in ExplanationInputs,
      level \in {JSStr(<<"L", "O", "W">>), JSStr(<<"U+9AD8">>)} }
  \cup { VerdictObject(JSStr(<<"Y", "e", "s">>), JSNum(0), JSArr(<<>>),
                       JSStr(<<"b", "a", "d">>), JSStr(<<"m", "e", "d", "i", "u", "m">>)) }

\* the characters of a riskLevel of a result
LevelText(name) ==
  CASE name = "low" -> <<"l", "o", "w">>
    [] name = "medium" -> <<"m", "e", "d", "i", "u", "m">>
    [] name = "high" -> <<"h", "i", "g", "h">>

\* JSON.parse(JSON.stringify(result)): the object a result reads back as
ResultAsJson(r) ==
  VerdictObject(JSBool(r.isPhishing), JSNum(r.confidenceScore), JSArr(r.suspiciousPoints),
                JSStr(r.explanation), JSStr(LevelText(r.riskLevel)))

\* the first index of sub in s, 0 when s does not contain it (indexOf + 1)
IndexOfSub(s, sub) ==
  IF Includes(s, sub)
  THEN CHOOSE i \in 1..(Len(s) - Len(sub) + 1) :
         /\ SubSeq(s, i, i + Len(sub) - 1) = sub
         /\ \A j \in 1..(i - 1) : SubSeq(s, j, j + Len(sub) - 1) # sub
  ELSE 0

\* the first index of a character of chars in s, Len(s) + 1 when there is none
FirstOf(s, chars) ==
  IF \E i \in 1..Len(s) : s[i] \in chars
  THEN CHOOSE i \in 1..Len(s) : s[i] \in chars /\ \A j \in 1..(i - 1) : s[j] \notin chars
  ELSE Len(s) + 1

\* s.split(sep) for a one-character separator
RECURSIVE SplitOn(_, _)
SplitOn(s, sep) ==
  LET i == FirstOf(s, {sep}) IN
  IF i > Len(s) THEN <<s>>
  ELSE <<SubSeq(s, 1, i - 1)>> \o SplitOn(SubSeq(s, i + 1, Len(s)), sep)

\* some keyword of the list is contained in s (Array.prototype.some + includes)
IncludesSome(s, keywords) == \E k \in 1..Len(keywords) : Includes(s, keywords[k])

\* [key, value] of one key=value item of a query string
QueryPair(item) ==
  LET eq == FirstOf(item, {"="}) IN
  <<SubSeq(item, 1, eq - 1), SubSeq(item, eq + 1, Len(item))>>

\* new URL(url) for an absolute URL written scheme://authority/path?query#fragment
\* without percent-escapes or dot segments: hostname, pathname and the
\* searchParams entries, or the TypeError thrown.
InvalidURL == [ok |-> FALSE, hostname |-> <<>>, pathname |-> <<>>, params |-> <<>>]
ParseURL(url) ==
  LET sep == IndexOfSub(url, <<":", "/", "/">>) IN
  IF sep <= 1 \/ \E i \in 1..Len(url) : IsSpace(url[i]) THEN InvalidURL
  ELSE LET rest == SubSeq(url, sep + 3, Len(url))
           aEnd == FirstOf(rest, {"/", "?", "#"})
           authority == SubSeq(rest, 1, aEnd - 1)
           hostport == IF "@" \in {authority[i] : i \in 1..Len(authority)}
                       THEN SplitOn(authority, "@")[Len(SplitOn(authority, "@"))]
                       ELSE authority
           host == SubSeq(hostport, 1, FirstOf(hostport, {":"}) - 1)
           tail == SubSeq(rest, aEnd, Len(rest))
           pEnd == FirstOf(tail, {"?", "#"})
           afterPath == SubSeq(tail, pEnd, Len(tail))
           query == IF afterPath # <<>> /\ Head(afterPath) = "?"
                    THEN SubSeq(afterPath, 2, FirstOf(afterPath, {"#"}) - 1)
                    ELSE <<>>
           items == SelectSeq(SplitOn(query, "&"), LAMBDA item : item # <<>>)
       IN IF host = <<>> THEN InvalidURL
          ELSE [ok |-> TRUE,
                hostname |-> ToLowerCase(host),
                pathname |-> IF pEnd = 1 THEN <<"/">> ELSE SubSeq(tail, 1, pEnd - 1),
                params |-> [i \in 1..Len(items) |-> QueryPair(items[i])]]

\* /^\d+\.\d+\.\d+\.\d+$/.test(domain)
IsIPv4Literal(domain) ==
  LET parts == SplitOn(domain, ".") IN
  Len(parts) = 4 /\ \A i \in 1..4 : parts[i] # <<>> /\ AllDigits(parts[i])

phishingKeywords ==
  <<<<"s", "e", "c", "u", "r", "e">>, <<"v", "e", "r", "i", "f", "y">>, <<"u", "p", "d", "a", "t", "e">>, <<"c", "o", "n", "f", "i", "r", "m">>, <<"l", "o", "g", "i", "n">>, <<"a", "c", "c", "o", "u", "n", "t">>>>
shorteners ==
  <<<<"b", "i", "t", ".", "l", "y">>, <<"t", "i", "n", "y", "u", "r", "l", ".", "c", "o", "m">>, <<"t", ".", "c", "o">>, <<"g", "o", "o", ".", "g", "l">>, <<"o", "w", ".", "l", "y">>>>
MaxDomainLength == 50
MaxSubdomains == 4

\* a grading that already rates highAbove features high
RiskByCountAtLeast(count, highAbove) ==
  IF count >= highAbove THEN "high" ELSE IF count > 0 THEN "medium" ELSE "low"

\* risk by the number of suspicious features: high above highAbove, medium
\* for any other number but 0
RiskByCount(count, highAbove) ==
  IF count > highAbove THEN "high" ELSE IF count > 0 THEN "medium" ELSE "low"

UrlHighAbove == 2

\* the entry urlAnalyzerTool.func pushes for one URL
AnalyzeUrl(url) ==
  LET urlObj == ParseURL(url)
      domain == urlObj.hostname
      path == urlObj.pathname
      params == urlObj.params
      suspiciousParams ==
        SelectSeq(params, LAMBDA kv :
          \/ Includes(ToLowerCase(kv[1]), <<"r", "e", "d", "i", "r", "e", "c", "t">>)
          \/ Includes(ToLowerCase(kv[1]), <<"u", "r", "l">>))
      suspiciousFeatures ==
        (IF Len(domain) > MaxDomainLength THEN <<"DOMAIN_TOO_LONG">> ELSE <<>>)
        \o (IF IsIPv4Literal(domain) THEN <<"IP_ADDRESS_AS_DOMAIN">> ELSE <<>>)
        \o (IF Len(SplitOn(domain, ".")) > MaxSubdomains THEN <<"TOO_MANY_SUBDOMAINS">> ELSE <<>>)
        \o (IF IncludesSome(ToLowerCase(domain), phishingKeywords)
               \/ IncludesSome(ToLowerCase(path), phishingKeywords)
            THEN <<"PHISHING_KEYWORDS">> ELSE <<>>)
        \o (IF IncludesSome(domain, shorteners) THEN <<"URL_SHORTENER">> ELSE <<>>)
        \o (IF Len(suspiciousParams) > 0 THEN <<"REDIRECT_PARAMETERS">> ELSE <<>>)
  IN IF urlObj.ok
     THEN [url |-> url, domain |-> domain,
           riskLevel |-> RiskByCount(Len(suspiciousFeatures), UrlHighAbove),
           suspiciousFeatures |-> suspiciousFeatures,
           suspiciousParams |-> suspiciousParams]
     ELSE [url |-> url, domain |-> <<"i", "n", "v", "a", "l", "i", "d">>,
           riskLevel |-> "high",
           suspiciousFeatures |-> <<"INVALID_URL_FORMAT">>,
           suspiciousParams |-> <<>>]

\* how many entries carry the level (results.filter(...).length)
CountLevel(results, level) ==
  Cardinality({i \in 1..Len(results) : results[i].riskLevel = level})

\* an analyzer that gives up at the first URL it cannot parse
urlAnalyzerUntilInvalid(urls) ==
  LET bad == {i \in 1..Len(urls) : ~ParseURL(urls[i]).ok}
      n == IF bad = {} THEN Len(urls) ELSE (CHOOSE i \in bad : \A j \in bad : i <= j)
      results == [i \in 1..n |-> AnalyzeUrl(urls[i])]
  IN [total |-> Len(urls),
      highRisk |-> CountLevel(results, "high"),
      mediumRisk |-> CountLevel(results, "medium"),
      lowRisk |-> CountLevel(results, "low"),
      results |-> results]

\* urlAnalyzerTool.func: the object whose JSON text it returns
urlAnalyzer(urls) ==
  LET results == [i \in 1..Len(urls) |-> AnalyzeUrl(urls[i])] IN
  [total |-> Len(urls),
   highRisk |-> CountLevel(results, "high"),
   mediumRisk |-> CountLevel(results, "medium"),
   lowRisk |-> CountLevel(results, "low"),
   results |-> results]

IPVerifyLoginUrl == <<"h", "t", "t", "p", ":", "/", "/", "2", "0", "3", ".", "0", ".", "1", "1", "3", ".", "5", "/", "v", "e", "r", "i", "f", "y", "-", "l", "o", "g", "i", "n">>
ShortenerUrl == <<"h", "t", "t", "p", "s", ":", "/", "/", "b", "i", "t", ".", "l", "y", "/", "x", "y", "z">>
UrlInputs ==
  { IPVerifyLoginUrl, ShortenerUrl,
    <<"h", "t", "t", "p", "s", ":", "/", "/", "e", "x", "a", "m", "p", "l", "e", ".", "o", "r", "g", "/">>,
    <<"h", "t", "t", "p", "s", ":", "/", "/", "e", "x", "a", "m", "p", "l", "e", ".", "o", "r", "g", "/", "h", "o", "m", "e", "?", "n", "e", "x", "t", "=", "1", "&", "R", "e", "d", "i", "r", "e", "c", "t", "_", "T", "o", "=", "x", "#", "t", "o", "p">>,
    <<"h", "t", "t", "p", ":", "/", "/", "1", "9", "2", ".", "1", "6", "8", ".", "0", ".", "1", ":", "8", "0", "8", "0">>,
    <<"h", "t", "t", "p", "s", ":", "/", "/", "a", ".", "b", ".", "c", ".", "d", ".", "E", "x", "a", "m", "p", "l", "e", ".", "o", "r", "g", "/", "L", "o", "g", "i", "n", "?", "U", "R", "L", "=", "x">>,
    <<"n", "o", "t", " ", "a", " ", "u", "r", "l">>,
    <<"h", "t", "t", "p", "s", ":", "/", "/", "u", "s", "e", "r", "@", "s", "e", "c", "u", "r", "e", ".", "e", "x", "a", "m", "p", "l", "e", ".", "o", "r", "g", "/", "a">>,
    <<"h", "t", "t", "p", "s", ":", "/", "/", "m", "i", "c", "r", "o", "s", "o", "f", "t", ".", "c", "o", "m", "/">>,
    <<"h", "t", "t", "p", ":", "/", "/", "a", "a", "a", "a", "a", "a", "a", "a", "a", "a", "a", "a", "a", "a", "a", "a", "a", "a", "a", "a", "a", "a", "a", "a", "a", "a", "a", "a", "a", "a", "a", "a", "a", "a", "a", "a", "a", "a", "a", "a", "a", "a", "a", "a", "a", "a", "a", "a", "a", "a", "a", ".", "o", "r", "g", "/", "x">> }
MaxUrls == 2
UrlLists == UNION { [1..n -> UrlInputs] : n \in 0..MaxUrls }

commonBrands ==
  <<<<"g", "o", "o", "g", "l", "e">>, <<"m", "i", "c", "r", "o", "s", "o", "f", "t">>, <<"a", "p", "p", "l", "e">>, <<"a", "m", "a", "z", "o", "n">>, <<"f", "a", "c", "e", "b", "o", "o", "k">>, <<"p", "a", "y", "p", "a", "l">>, <<"b", "a", "n", "k">>>>
secureWord == <<"s", "e", "c", "u", "r", "e">>

\* the variations of a brand the domain checker looks for in a domain
BrandVariation(domain, brand) ==
  \/ Includes(domain, brand \o <<"-">>)
  \/ Includes(domain, brand \o <<".">>)
  \/ Includes(domain, <<"-">> \o brand)
  \/ Includes(domain, brand \o secureWord)
  \/ Includes(domain, secureWord \o brand)

\* how many characters of s satisfy Test ((s.match(/x/g) || []).length)
CountChars(s, Test(_)) == Cardinality({i \in 1..Len(s) : Test(s[i])})
IsHyphen(c) == c = "-"

\* domain.split('.').pop()?.toLowerCase()
TldOf(domain) == ToLowerCase(SplitOn(domain, ".")[Len(SplitOn(domain, "."))])

suspiciousTlds ==
  <<<<"t", "k">>, <<"m", "l">>, <<"g", "a">>, <<"c", "f">>, <<"c", "l", "i", "c", "k">>, <<"d", "o", "w", "n", "l", "o", "a", "d">>>>

\* no top-level domain counts as suspicious
NoSuspiciousTld(tld) == FALSE

\* tld && suspiciousTlds.includes(tld)
IsSuspiciousTld(tld) ==
  tld # <<>> /\ \E i \in 1..Len(suspiciousTlds) : suspiciousTlds[i] = tld

MaxHyphens == 2
DigitShareTenths == 3     \* digits above 0.3 of the length
DomainHighAbove == 1

\* the entry domainCheckerTool.func pushes for one domain
CheckDomain(domain) ==
  LET brandVariations ==
        SelectSeq(commonBrands, LAMBDA brand : BrandVariation(domain, brand))
      digitCount == CountChars(domain, IsDigit)
      hyphenCount == CountChars(domain, IsHyphen)
      tld == TldOf(domain)
      suspiciousFeatures ==
        (IF Len(brandVariations) > 0 THEN <<"BRAND_IMPERSONATION">> ELSE <<>>)
        \o (IF digitCount * 10 > Len(domain) * DigitShareTenths THEN <<"TOO_MANY_DIGITS">> ELSE <<>>)
        \o (IF hyphenCount > MaxHyphens THEN <<"TOO_MANY_HYPHENS">> ELSE <<>>)
        \o (IF IsSuspiciousTld(tld) THEN <<"SUSPICIOUS_TLD">> ELSE <<>>)
  IN [domain |-> domain,
      riskLevel |-> RiskByCount(Len(suspiciousFeatures), DomainHighAbove),
      suspiciousFeatures |-> suspiciousFeatures,
      tld |-> IF tld # <<>> THEN tld ELSE <<"u", "n", "k", "n", "o", "w", "n">>]

\* domainCheckerTool.func: the object whose JSON text it returns
domainChecker(domains) ==
  LET results == [i \in 1..Len(domains) |-> CheckDomain(domains[i])] IN
  [total |-> Len(domains),
   highRisk |-> CountLevel(results, "high"),
   mediumRisk |-> CountLevel(results, "medium"),
   lowRisk |-> CountLevel(results, "low"),
   results |-> results]

PaypalSecureLoginTk == <<"p", "a", "y", "p", "a", "l", "-", "s", "e", "c", "u", "r", "e", "-", "l", "o", "g", "i", "n", ".", "t", "k">>
DomainInputs ==
  { PaypalSecureLoginTk,
    <<"e", "x", "a", "m", "p", "l", "e", ".", "o", "r", "g">>,
    <<"g", "o", "o", "g", "l", "e", ".", "c", "o", "m">>,
    <<"e", "x", "a", "m", "p", "l", "e", ".", "T", "K">>,
    <<"a", "1", "b", "2", "c", "3", "d", "4", ".", "i", "o">>,
    <<"m", "y", "-", "o", "w", "n", "-", "l", "i", "t", "t", "l", "e", "-", "s", "i", "t", "e", ".", "o", "r", "g">>,
    <<"s", "e", "c", "u", "r", "e", "a", "p", "p", "l", "e", "-", "1", "2", "3", "4", "-", "5", "-", "6", ".", "c", "l", "i", "c", "k">>,
    <<"P", "a", "y", "P", "a", "l", "-", "l", "o", "g", "i", "n", ".", "o", "r", "g">>,
    <<"l", "o", "c", "a", "l", "h", "o", "s", "t">>,
    <<>> }
MaxDomains == 2
DomainLists == UNION { [1..n -> DomainInputs] : n \in 0..MaxDomains }

(***************************************************************************)
(* Model text piece by piece, as the regular expressions of the parsers    *)
(* read it.  A piece is                                                    *)
(*   "word"    a run of letters, digits and white space ([\w\s])           *)
(*   "punct"   a character that is none of those, nor a brace or a fence   *)
(*   "fence"   ``` or ```json, with the white space after it               *)
(*   "object"  the text of one JSON object, { ... }, of value v            *)
(*   "array"   the text of one JSON array, of value v                      *)
(*   "open"    a { and "close" a } that belong to no JSON object           *)
(***************************************************************************)
Piece(k, v) == [k |-> k, v |-> v]
Word == Piece("word", JSUndefined)
Punct == Piece("punct", JSUndefined)
Fence == Piece("fence", JSUndefined)
OpenBrace == Piece("open", JSUndefined)
CloseBrace == Piece("close", JSUndefined)
ObjectText(v) == Piece("object", v)
ArrayText(v) == Piece("array", v)

PiecesOf(text, kinds) == { i \in 1..Len(text) : text[i].k \in kinds }
FirstIn(S) == CHOOSE i \in S : \A j \in S : i <= j
LastIn(S) == CHOOSE i \in S : \A j \in S : j <= i

\* JSON.parse: the text is one JSON value and nothing else
JSONParse(text) ==
  IF Len(text) = 1 /\ text[1].k \in {"object", "array"}
  THEN Ok(text[1].v) ELSE Throws(<<"SyntaxError">>)

\* JsonOutputParser.parse of a text: what lies between code fences, when
\* there are two, or else the whole text, goes to JSON.parse
parserParseText(text) ==
  LET fences == PiecesOf(text, {"fence"}) IN
  IF Cardinality(fences) >= 2
  THEN JSONParse(SubSeq(text, FirstIn(fences) + 1, LastIn(fences) - 1))
  ELSE JSONParse(text)

\* content.match(/\{[\s\S]*\}/): greedy, from the first { to the last };
\* <<>> is null, <<m>> the match
jsonMatch(content) ==
  LET opens == PiecesOf(content, {"object", "open"})
      closes == PiecesOf(content, {"object", "close"})
  IN IF opens # {} /\ closes # {} /\ FirstIn(opens) <= LastIn(closes)
     THEN << SubSeq(content, FirstIn(opens), LastIn(closes)) >>
     ELSE <<>>

\* the words that open (close) the text
LeadingWords(text) ==
  LET others == PiecesOf(text, {"punct", "fence", "object", "array", "open", "close"})
  IN IF others = {} THEN Len(text) ELSE FirstIn(others) - 1
TrailingWords(text) ==
  LET others == PiecesOf(text, {"punct", "fence", "object", "array", "open", "close"})
  IN IF others = {} THEN Len(text) ELSE Len(text) - LastIn(others)

\* the four replace calls of parseModelResponse: fences go, words before a
\* { that opens the text go, words after a } that ends it go
cleanedContent(content) ==
  LET unfenced == SelectSeq(content, LAMBDA p : p.k # "fence")
      a == LeadingWords(unfenced)
      head == IF a < Len(unfenced) /\ unfenced[a + 1].k \in {"object", "open"}
              THEN SubSeq(unfenced, a + 1, Len(unfenced)) ELSE unfenced
      b == TrailingWords(head)
  IN IF b < Len(head) /\ head[Len(head) - b].k \in {"object", "close"}
     THEN SubSeq(head, 1, Len(head) - b) ELSE head

\* PhishingDetector.parseModelResponse on a text given piece by piece;
\* tried lists the attempts made
parseModelResponseLayers(content) ==
  LET direct == parserParseText(content)
      match == jsonMatch(content)
      cleaned == JSONParse(cleanedContent(content))
      failed == ErrorObject(<<"MODEL_RESPONSE_NOT_VALID_JSON">>)
  IN IF direct.ok THEN [tried |-> <<"direct">>, v |-> direct.v]
     ELSE IF match # <<>>
       THEN [tried |-> <<"direct", "match">>,
             v |-> IF JSONParse(match[1]).ok THEN JSONParse(match[1]).v ELSE failed]
     ELSE [tried |-> <<"direct", "match", "cleaned">>,
           v |-> IF cleaned.ok THEN cleaned.v ELSE failed]

\* PhishingAnalysisWorkflow.parseResult on a text given piece by piece
parseResultLayers(content, now) ==
  LET direct == parserParseText(content)
      match == jsonMatch(content)
  IN IF direct.ok /\ CanReadProperties(direct.v)
     THEN [tried |-> <<"direct">>, v |-> WorkflowValidateAndFormatResult(direct.v, now)]
     ELSE IF match # <<>> /\ JSONParse(match[1]).ok
       THEN [tried |-> <<"direct", "match">>,
             v |-> WorkflowValidateAndFormatResult(JSONParse(match[1]).v, now)]
     ELSE [tried |-> <<"direct", "match">>, v |-> ParseFallbackResult(now)]

\* model texts: a verdict alone, fenced, in prose, after a colon, followed
\* by a second object, followed by a lone }, after an unclosed fence; an
\* array after an unclosed fence; braces around prose; prose; nothing
TwoObjectsText == << ObjectText(GoodVerdict), Word, ObjectText(BadVerdict) >>
ModelTexts ==
  { << ObjectText(GoodVerdict) >>,
    << Fence, ObjectText(GoodVerdict), Fence >>,
    << Word, ObjectText(GoodVerdict), Word >>,
    << Word, Punct, ObjectText(GoodVerdict), Punct >>,
    TwoObjectsText,
    << Word, ObjectText(GoodVerdict), Word, CloseBrace >>,
    << Fence, ObjectText(GoodVerdict) >>,
    << Fence, ArrayText(JSArr(<<>>)) >>,
    << OpenBrace, Word, CloseBrace >>,
    << Word >>,
    << >> }

\* isPhishing values a model may supply
BooleanInputs ==
  { JSBool(TRUE), JSBool(FALSE),
    JSStr(<<"t", "r", "u", "e">>), JSStr(<<"U+662F">>), JSStr(<<"Y", "e", "s">>),
    JSStr(<<"f", "a", "l", "s", "e">>), JSStr(<<"U+5426">>), JSStr(<<"n", "o">>),
    JSStr(<<"m", "a", "y", "b", "e">>), JSStr(<<>>), JSStr(<<"0">>),
    JSNum(0), JSNum(10), JSNull, JSUndefined, JSArr(<<>>) }

\* a verdict of the model that is well formed but for its isPhishing
VerdictWithIsPhishing(value) ==
  VerdictObject(value, JSNum(900), JSArr(<<JSStr(<<"l", "i", "n", "k">>)>>),
                JSStr(<<"b", "a", "d">>), JSStr(<<"h", "i", "g", "h">>))

\* a verdict of the model that is well formed but for its suspiciousPoints
VerdictWithPoints(points) ==
  VerdictObject(JSBool(TRUE), JSNum(900), points,
                JSStr(<<"b", "a", "d">>), JSStr(<<"h", "i", "g", "h">>))


(***************************************************************************)
(* emailHeaderAnalyzerTool.  Optional fields of headers are JSUndefined    *)
(* when left out.  Times are whole hours since 1970-01-01T00:00Z.          *)
(***************************************************************************)
freeEmailProviders ==
  <<<<"g", "m", "a", "i", "l", ".", "c", "o", "m">>, <<"y", "a", "h", "o", "o", ".", "c", "o", "m">>, <<"h", "o", "t", "m", "a", "i", "l", ".", "c", "o", "m">>, <<"o", "u", "t", "l", "o", "o", "k", ".", "c", "o", "m">>>>
MaxRouteHops == 10
MaxAgeDays == 365
HeaderHighAbove == 2
HoursPerDay == 24

\* address.split('@')[1]?.toLowerCase()
DomainOf(address) ==
  LET parts == SplitOn(address, "@") IN
  IF Len(parts) >= 2 THEN JSStr(ToLowerCase(parts[2])) ELSE JSUndefined

\* a !== b of two such domains
DomainsDiffer(a, b) == a.t # b.t \/ (a.t = "string" /\ a.v # b.v)

\* /\d+\.\d+\.\d+\.\d+/.test(route)
HasDottedQuad(route) ==
  \E a, b, c \in 1..Len(route) :
    /\ a < b /\ b < c
    /\ route[a] = "." /\ route[b] = "." /\ route[c] = "."
    /\ a > 1 /\ IsDigit(route[a - 1])
    /\ b > a + 1 /\ AllDigits(SubSeq(route, a + 1, b - 1))
    /\ c > b + 1 /\ AllDigits(SubSeq(route, b + 1, c - 1))
    /\ c < Len(route) /\ IsDigit(route[c + 1])

\* days from 1970-01-01 to the day d of month m of year y
DaysFromCivil(y, m, d) ==
  LET yy == IF m <= 2 THEN y - 1 ELSE y
      era == yy \div 400
      yoe == yy - era * 400
      mp == (m + 9) % 12
      doy == (153 * mp + 2) \div 5 + d - 1
      doe == yoe * 365 + yoe \div 4 - yoe \div 100 + doy
  IN era * 146097 + doe - 719468

\* new Date(text).getTime() for a date written YYYY-MM-DD, midnight UTC of
\* that day; a text of any other shape gives an Invalid Date, whose time is
\* NaN: the constructor does not throw
DateTime(text) ==
  IF /\ Len(text) = 10 /\ text[5] = "-" /\ text[8] = "-"
     /\ AllDigits(SubSeq(text, 1, 4)) /\ AllDigits(SubSeq(text, 6, 7))
     /\ AllDigits(SubSeq(text, 9, 10))
     /\ DigitsValue(SubSeq(text, 6, 7)) \in 1..12
     /\ DigitsValue(SubSeq(text, 9, 10)) \in 1..31
  THEN JSNum(HoursPerDay * DaysFromCivil(DigitsValue(SubSeq(text, 1, 4)),
                                         DigitsValue(SubSeq(text, 6, 7)),
                                         DigitsValue(SubSeq(text, 9, 10))))
  ELSE JSNaN

Abs(n) == IF n < 0 THEN 0 - n ELSE n

\* emailHeaderAnalyzerTool.func: the object whose JSON text it returns.  No
\* statement of the outer try block throws for headers of the tool's schema.
emailHeaderAnalyzer(headers, now) ==
  LET fromDomain == DomainOf(headers.from)
      fromName == ToLowerCase(Trim(SplitOn(headers.from, "<")[1]))
      claimsCompany ==
        /\ fromDomain.t = "string"
        /\ \E k \in 1..Len(freeEmailProviders) : freeEmailProviders[k] = fromDomain.v
        /\ (Includes(fromName, <<"b", "a", "n", "k">>) \/ Includes(fromName, <<"s", "u", "p", "p", "o", "r", "t">>))
      replyDiffers ==
        /\ Truthy(headers.replyTo) /\ headers.replyTo.v # headers.from
        /\ DomainsDiffer(DomainOf(headers.replyTo.v), fromDomain)
      returnDiffers ==
        /\ Truthy(headers.returnPath) /\ headers.returnPath.v # headers.from
        /\ DomainsDiffer(DomainOf(headers.returnPath.v), fromDomain)
      routes == IF headers.received.t = "array" THEN headers.received.v ELSE <<>>
      suspiciousServers ==
        SelectSeq(routes, LAMBDA route :
          \/ Includes(ToLowerCase(route), <<"u", "n", "k", "n", "o", "w", "n">>)
          \/ Includes(ToLowerCase(route), <<"l", "o", "c", "a", "l", "h", "o", "s", "t">>)
          \/ HasDottedQuad(route))
      badId ==
        /\ Truthy(headers.messageId)
        /\ ~(Includes(headers.messageId.v, <<"@">>) /\ Includes(headers.messageId.v, <<"<">>)
               /\ Includes(headers.messageId.v, <<">">>))
      dated == headers.date # <<>>
      sendDate == DateTime(headers.date)
      \* a comparison with NaN is false
      future == dated /\ sendDate.t = "number" /\ sendDate.v > now
      old == dated /\ sendDate.t = "number"
               /\ Abs(now - sendDate.v) > MaxAgeDays * HoursPerDay
      suspiciousFeatures ==
        (IF claimsCompany THEN <<"FREE_MAIL_CLAIMING_COMPANY">> ELSE <<>>)
        \o (IF replyDiffers THEN <<"REPLY_TO_DOMAIN_DIFFERS">> ELSE <<>>)
        \o (IF returnDiffers THEN <<"RETURN_PATH_DOMAIN_DIFFERS">> ELSE <<>>)
        \o (IF Len(routes) > MaxRouteHops THEN <<"TOO_MANY_ROUTE_HOPS">> ELSE <<>>)
        \o (IF Len(suspiciousServers) > 0 THEN <<"SUSPICIOUS_SERVER_IN_ROUTE">> ELSE <<>>)
        \o (IF badId THEN <<"MESSAGE_ID_FORMAT_ABNORMAL">> ELSE <<>>)
        \o (IF future THEN <<"SENT_IN_THE_FUTURE">> ELSE <<>>)
        \o (IF old THEN <<"SENT_TOO_LONG_AGO">> ELSE <<>>)
      analysis ==
        (IF fromDomain.t = "string" /\ fromDomain.v # <<>> THEN <<"FROM_DOMAIN">> ELSE <<>>)
        \o (IF replyDiffers THEN <<"REPLY_TO_DOMAIN">> ELSE <<>>)
        \o (IF returnDiffers THEN <<"RETURN_PATH_DOMAIN">> ELSE <<>>)
        \o (IF Len(routes) > 0 THEN <<"ROUTE_HOPS">> ELSE <<>>)
        \o (IF dated THEN <<"SEND_TIME">> ELSE <<>>)
  IN [riskLevel |-> RiskByCount(Len(suspiciousFeatures), HeaderHighAbove),
      suspiciousFeatures |-> suspiciousFeatures,
      analysis |-> analysis,
      totalSuspiciousFeatures |-> Len(suspiciousFeatures)]

\* headers a model may pass, and the hour the tool runs at (noon of
\* 2024-06-15)
HeaderNow == HoursPerDay * DaysFromCivil(2024, 6, 15) + 12
UnparsableDate == <<"n", "o", "t", " ", "a", " ", "d", "a", "t", "e">>
HeaderFroms == { <<"S", "u", "p", "p", "o", "r", "t", "@", "g", "m", "a", "i", "l", ".", "c", "o", "m">>, <<"n", "e", "w", "s", "@", "e", "x", "a", "m", "p", "l", "e", ".", "o", "r", "g">>, <<"M", "y", " ", "B", "a", "n", "k", " ", "<", "a", "l", "e", "r", "t", "s", "@", "g", "m", "a", "i", "l", ".", "c", "o", "m", ">">> }
HeaderReplyTos == { JSUndefined, JSStr(<<"n", "e", "w", "s", "@", "e", "x", "a", "m", "p", "l", "e", ".", "o", "r", "g">>), JSStr(<<"x", "@", "e", "v", "i", "l", ".", "t", "e", "s", "t">>) }
HeaderReturnPaths == { JSUndefined, JSStr(<<"b", "o", "u", "n", "c", "e", "@", "e", "v", "i", "l", ".", "t", "e", "s", "t">>) }
HeaderRoutes ==
  { JSUndefined,
    JSArr(<< <<"f", "r", "o", "m", " ", "m", "a", "i", "l", ".", "e", "x", "a", "m", "p", "l", "e", ".", "o", "r", "g">> >>),
    JSArr(<< <<"f", "r", "o", "m", " ", "m", "a", "i", "l", ".", "e", "x", "a", "m", "p", "l", "e", ".", "o", "r", "g">>, <<"f", "r", "o", "m", " ", "u", "n", "k", "n", "o", "w", "n", " ", "(", "1", "0", ".", "0", ".", "0", ".", "1", ")">> >>),
    JSArr([i \in 1..(MaxRouteHops + 1) |-> <<"f", "r", "o", "m", " ", "m", "a", "i", "l", ".", "e", "x", "a", "m", "p", "l", "e", ".", "o", "r", "g">>]) }
HeaderMessageIds == { JSUndefined, JSStr(<<"<", "1", "@", "e", "x", "a", "m", "p", "l", "e", ".", "o", "r", "g", ">">>), JSStr(<<"a", "b", "c">>) }
HeaderDates == { <<"2", "0", "2", "4", "-", "0", "6", "-", "1", "5">>, <<"2", "0", "3", "0", "-", "0", "1", "-", "0", "1">>, <<"2", "0", "2", "0", "-", "0", "1", "-", "0", "1">>, <<"2", "0", "2", "3", "-", "0", "6", "-", "1", "5">>, UnparsableDate, <<>> }
HeaderInputs ==
  { [from |-> f, replyTo |-> r, returnPath |-> p, received |-> h, messageId |-> m, date |-> d] :
      f \in HeaderFroms, r \in HeaderReplyTos, p \in HeaderReturnPaths,
      h \in HeaderRoutes, m \in HeaderMessageIds, d \in HeaderDates }

\* configurations validateConfig may be given: every provider, model id,
\* API key and temperature together
ConfigInputs ==
  { [provider |-> p, model |-> m, apiKey |-> k, temperature |-> t] :
      p \in Providers, m \in ModelIds, k \in ApiKeys,
      t \in Temperatures \cup { JSNum(7), JSUndefined, JSStr(<<"1">>) } }


MaxRawErrorLength == 100

\* ModelFactory.parseConnectionError
parseConnectionError(error) ==
  LET message == ToLowerCase(error.message) IN
  IF error.name \in {"ModelConfigError", "ModelConnectionError"} THEN error.message
  ELSE IF error.name = "none" THEN <<"CONNECTION_FAILED_CHECK_NETWORK_AND_API">>
  ELSE IF Includes(message, <<"4", "0", "1">>) \/ Includes(message, <<"u", "n", "a", "u", "t", "h", "o", "r", "i", "z", "e", "d">>)
          \/ Includes(message, <<"i", "n", "v", "a", "l", "i", "d", " ", "a", "p", "i", " ", "k", "e", "y">>)
    THEN <<"API_KEY_INVALID_OR_EXPIRED">>
  ELSE IF Includes(message, <<"4", "0", "3">>) \/ Includes(message, <<"f", "o", "r", "b", "i", "d", "d", "e", "n">>)
    THEN <<"API_KEY_NOT_PERMITTED_CHECK_SETTINGS">>
  ELSE IF Includes(message, <<"4", "2", "9">>) \/ Includes(message, <<"r", "a", "t", "e", " ", "l", "i", "m", "i", "t">>)
          \/ Includes(message, <<"q", "u", "o", "t", "a">>)
    THEN <<"API_RATE_LIMITED_OR_QUOTA_EXHAUSTED">>
  ELSE IF Includes(message, <<"m", "o", "d", "e", "l">>)
          /\ (Includes(message, <<"n", "o", "t", " ", "f", "o", "u", "n", "d">>) \/ Includes(message, <<"d", "o", "e", "s", " ", "n", "o", "t", " ", "e", "x", "i", "s", "t">>))
    THEN <<"MODEL_NOT_FOUND_OR_UNAVAILABLE">>
  ELSE IF Includes(message, <<"n", "e", "t", "w", "o", "r", "k">>) \/ Includes(message, <<"f", "e", "t", "c", "h">>)
          \/ Includes(message, <<"t", "i", "m", "e", "o", "u", "t">>)
    THEN <<"NETWORK_FAILED_CHECK_CONNECTION">>
  ELSE IF Includes(message, <<"c", "o", "r", "s">>) THEN <<"CROSS_ORIGIN_BLOCKED">>
  ELSE IF Includes(message, <<"5", "0", "0">>) \/ Includes(message, <<"5", "0", "2">>) \/ Includes(message, <<"5", "0", "3">>)
    THEN <<"SERVER_UNAVAILABLE_RETRY_LATER">>
  ELSE IF Includes(message, <<"j", "s", "o", "n">>) \/ Includes(message, <<"p", "a", "r", "s", "e">>)
    THEN <<"SERVER_RESPONSE_FORMAT">>
  ELSE IF Len(error.message) < MaxRawErrorLength THEN error.message
  ELSE <<"CONNECTION_FAILED_CHECK_NETWORK_AND_API">>

\* texts of transport errors, one or two for each kind of failure, some of
\* more than one kind, one of no kind and one of no kind that is long
QuotaText == <<"Y", "o", "u", " ", "e", "x", "c", "e", "e", "d", "e", "d", " ", "y", "o", "u", "r", " ", "c", "u", "r", "r", "e", "n", "t", " ", "q", "u", "o", "t", "a">>
ServerErrorText == <<"5", "0", "3", " ", "S", "e", "r", "v", "i", "c", "e", " ", "U", "n", "a", "v", "a", "i", "l", "a", "b", "l", "e">>
ErrorTexts ==
  { <<"4", "0", "1", " ", "U", "n", "a", "u", "t", "h", "o", "r", "i", "z", "e", "d">>,
    <<"I", "n", "v", "a", "l", "i", "d", " ", "A", "P", "I", " ", "k", "e", "y", " ", "p", "r", "o", "v", "i", "d", "e", "d">>,
    <<"4", "0", "3", " ", "F", "o", "r", "b", "i", "d", "d", "e", "n">>,
    <<"4", "2", "9", " ", "T", "o", "o", " ", "M", "a", "n", "y", " ", "R", "e", "q", "u", "e", "s", "t", "s">>,
    <<"R", "a", "t", "e", " ", "l", "i", "m", "i", "t", " ", "r", "e", "a", "c", "h", "e", "d">>,
    QuotaText,
    <<"B", "i", "l", "l", "i", "n", "g", " ", "h", "a", "r", "d", " ", "l", "i", "m", "i", "t", " ", "r", "e", "a", "c", "h", "e", "d">>,
    <<"4", "2", "9", " ", "i", "n", "s", "u", "f", "f", "i", "c", "i", "e", "n", "t", "_", "q", "u", "o", "t", "a">>,
    <<"M", "o", "d", "e", "l", " ", "n", "o", "t", " ", "f", "o", "u", "n", "d">>,
    <<"T", "h", "e", " ", "m", "o", "d", "e", "l", " ", "g", "p", "t", "-", "9", " ", "d", "o", "e", "s", " ", "n", "o", "t", " ", "e", "x", "i", "s", "t">>,
    <<"f", "e", "t", "c", "h", " ", "f", "a", "i", "l", "e", "d">>,
    <<"R", "e", "q", "u", "e", "s", "t", " ", "t", "i", "m", "e", "o", "u", "t">>,
    ServerErrorText,
    <<"5", "0", "0", " ", "I", "n", "t", "e", "r", "n", "a", "l", " ", "S", "e", "r", "v", "e", "r", " ", "E", "r", "r", "o", "r">>,
    <<"5", "0", "3", " ", "u", "p", "s", "t", "r", "e", "a", "m", " ", "t", "i", "m", "e", "o", "u", "t">>,
    <<"s", "o", "c", "k", "e", "t", " ", "h", "a", "n", "g", " ", "u", "p">>,
    [i \in 1..MaxRawErrorLength |-> "x"] }
ErrorInputs ==
  { Err("Error", "", t) : t \in ErrorTexts }
  \cup { Err("ModelConnectionError", "", QuotaText), Err("none", "", <<>>) }

PureCalls ==
  { Call("validateConfidenceScore", x) : x \in ScoreInputs }
  \cup { Call("workflowValidateAndFormatResult", VerdictWithScore(x)) : x \in ScoreInputs }
  \cup { Call("validateRiskLevel", x) : x \in RiskInputs }
  \cup { Call("workflowValidateAndFormatResult", VerdictWithRisk(x)) : x \in RiskInputs }
  \cup { Call("validateAndFormatResult", raw) : raw \in RawVerdicts }
  \cup { Call("url_analyzer", urls) : urls \in UrlLists }
  \cup { Call("domain_checker", domains) : domains \in DomainLists }
  \cup { Call("parseModelResponse", text) : text \in ModelTexts }
  \cup { Call("parseResult", text) : text \in ModelTexts }
  \cup { Call("validateBoolean", x) : x \in BooleanInputs }
  \cup { Call("workflowIsPhishing", x) : x \in BooleanInputs }
  \cup { Call("validateSuspiciousPoints", x) : x \in PointsInputs \cup { JSNull, JSNum(10) } }
  \cup { Call("workflowSuspiciousPoints", x) : x \in PointsInputs \cup { JSNull, JSNum(10) } }
  \cup { Call("validateExplanation", x) :
           x \in ExplanationInputs \cup { JSStr(<<" ", "\n">>), JSStr(<<>>), JSNull, JSNum(10) } }
  \cup { Call("email_header_analyzer", headers) : headers \in HeaderInputs }
  \cup { Call("validateConfig", config) : config \in ConfigInputs }
  \cup { Call("parseModelError", e) : e \in ErrorInputs }
  \cup { Call("parseConnectionError", e) : e \in ErrorInputs }

PureInit ==
  /\ pc = "pure"
  /\ entry = "none"
  /\ request = NoRequest
  /\ ctorUseTools = FALSE
  /\ messages = <<>>
  /\ toolResults = NoToolResults
  /\ finalResult = NoResult
  /\ useTools = FALSE
  /\ currentStep = "initial_analysis"
  /\ toolCallCount = 0
  /\ clock = 0
  /\ modelCalls = 0
  /\ lastReply = NoReply
  /\ executed = <<>>
  /\ thrown = NoError
  /\ result = NoResult
  /\ pureCall \in PureCalls
  /\ pureResult = NotCalled
  /\ aborted = FALSE
  /\ processEnv = JSUndefined
  /\ runs = [r \in Runs |-> IdleRun]
  /\ hook = MountedHook

RequestUnchanged ==
  UNCHANGED <<pc, entry, request, ctorUseTools, messages, toolResults, finalResult,
              useTools, currentStep, toolCallCount, clock, modelCalls, lastReply,
              executed, thrown, result, aborted, processEnv, runs, hook>>

\* the pending call is made: fn names the function, apply its return
Applies(fn, value) ==
  /\ pc = "pure"
  /\ pureCall.fn = fn
  /\ ~pureResult.done
  /\ pureResult' = Returned(value)
  /\ UNCHANGED pureCall
  /\ RequestUnchanged

callValidateConfidenceScore ==
  Applies("validateConfidenceScore", validateConfidenceScore(pureCall.arg))

callWorkflowValidateAndFormatResult ==
  Applies("workflowValidateAndFormatResult",
          WorkflowValidateAndFormatResult(pureCall.arg, 1))

callValidateRiskLevel ==
  Applies("validateRiskLevel", validateRiskLevel(pureCall.arg))

callValidateAndFormatResult ==
  Applies("validateAndFormatResult", validateAndFormatResult(pureCall.arg))

\* the result the validator produced is validated again
callValidateAgain ==
  /\ pc = "pure"
  /\ pureCall.fn = "validateAndFormatResult"
  /\ pureResult.done
  /\ pureResult.v.ok
  /\ "again" \notin DOMAIN pureResult
  /\ pureResult' = [done |-> TRUE, v |-> pureResult.v,
                    again |-> validateAndFormatResult(ResultAsJson(pureResult.v.v))]
  /\ UNCHANGED pureCall
  /\ RequestUnchanged

callUrlAnalyzer ==
  Applies("url_analyzer", urlAnalyzer(pureCall.arg))

callDomainChecker ==
  Applies("domain_checker", domainChecker(pureCall.arg))

callParseModelResponse ==
  Applies("parseModelResponse", parseModelResponseLayers(pureCall.arg))

callParseResult ==
  Applies("parseResult", parseResultLayers(pureCall.arg, 1))

callValidateBoolean ==
  Applies("validateBoolean", validateBoolean(pureCall.arg))

\* the workflow's validateAndFormatResult on a verdict with this isPhishing
callWorkflowIsPhishing ==
  Applies("workflowIsPhishing",
          Ok(WorkflowValidateAndFormatResult(VerdictWithIsPhishing(pureCall.arg), 1)))

callValidateSuspiciousPoints ==
  Applies("validateSuspiciousPoints", validateSuspiciousPoints(pureCall.arg))

\* the workflow's validateAndFormatResult on a verdict with these points
callWorkflowSuspiciousPoints ==
  Applies("workflowSuspiciousPoints",
          Ok(WorkflowValidateAndFormatResult(VerdictWithPoints(pureCall.arg), 1).suspiciousPoints))

callValidateExplanation ==
  Applies("validateExplanation", validateExplanation(pureCall.arg))

callEmailHeaderAnalyzer ==
  Applies("email_header_analyzer", emailHeaderAnalyzer(pureCall.arg, HeaderNow))

callValidateConfig ==
  Applies("validateConfig", validateConfig(pureCall.arg))

callParseModelError ==
  Applies("parseModelError", parseModelError(pureCall.arg))

callParseConnectionError ==
  Applies("parseConnectionError", parseConnectionError(pureCall.arg))

PureNext ==
  \/ callValidateConfidenceScore
  \/ callValidateRiskLevel
  \/ callWorkflowValidateAndFormatResult
  \/ callValidateAndFormatResult
  \/ callValidateAgain
  \/ callUrlAnalyzer
  \/ callDomainChecker
  \/ callParseModelResponse
  \/ callParseResult
  \/ callValidateBoolean
  \/ callWorkflowIsPhishing
  \/ callValidateSuspiciousPoints
  \/ callWorkflowSuspiciousPoints
  \/ callValidateExplanation
  \/ callEmailHeaderAnalyzer
  \/ callValidateConfig
  \/ callParseModelError
  \/ callParseConnectionError

PureSpec == PureInit /\ [][PureNext]_vars

Called(fn) == pc = "pure" /\ pureCall.fn = fn /\ pureResult.done

\* a number, or a text that reads as a decimal number
IsNumeric(x) ==
  \/ x.t = "number"
  \/ x.t = "string" /\ Trim(x.v) # <<>> /\ StringToNumber(x.v).t = "number"

\* clamp to [0, 100], then round to the nearest integer (numbers in tenths)
ClampThenRound(n) ==
  LET clamped == IF n < 0 THEN 0 ELSE IF n > 1000 THEN 1000 ELSE n
  IN ((clamped + 5) \div 10) * 10

\* C11: every numeric confidenceScore, in range or not, validates to the
\* integer got by clamping to [0, 100] and rounding to nearest; only a
\* non-numeric one is a validation failure.  Both validators are held to it.
C11_ScoreClampedAndRounded ==
  /\ Called("validateConfidenceScore") /\ IsNumeric(pureCall.arg) =>
         /\ pureResult.v.ok
         /\ pureResult.v.v = ClampThenRound(ToNumber(pureCall.arg).v)
  /\ Called("workflowValidateAndFormatResult") =>
       LET score == Field(pureCall.arg, "confidenceScore") IN
       IsNumeric(score) =>
         pureResult.v.confidenceScore = ClampThenRound(ToNumber(score).v)

\* what the named riskLevel inputs are to be mapped to
ExpectedRiskLevel(level) ==
  CASE level = JSStr(<<"l", "o", "w">>) -> Ok("low")
    [] level = JSStr(<<"L", "O", "W">>) -> Ok("low")
    [] level = JSStr(<<"U+4F4E">>) -> Ok("low")
    [] level = JSStr(<<"m", "e", "d", "i", "u", "m">>) -> Ok("medium")
    [] level = JSStr(<<"U+9AD8">>) -> Ok("high")
    [] OTHER -> Throws(<<>>)
NamedRiskInputs ==
  { JSStr(<<"l", "o", "w">>), JSStr(<<"L", "O", "W">>), JSStr(<<"U+4F4E">>),
    JSStr(<<"m", "e", "d", "i", "u", "m">>), JSStr(<<"U+9AD8">>),
    JSStr(<<"b", "o", "g", "u", "s">>) }

\* the detector's validateRiskLevel alone follows the table
DetectorRiskLevelFollowsTable ==
  Called("validateRiskLevel") =>
    /\ pureResult.v.ok => pureResult.v.v \in {"low", "medium", "high"}
    /\ pureCall.arg \in NamedRiskInputs =>
         /\ pureResult.v.ok = ExpectedRiskLevel(pureCall.arg).ok
         /\ pureResult.v.ok => pureResult.v.v = ExpectedRiskLevel(pureCall.arg).v
DetectorRiskLevelWitness ==
  /\ Called("validateRiskLevel")
  /\ pureCall.arg = JSStr(<<"b", "o", "g", "u", "s">>)
  /\ ~pureResult.v.ok

\* C12: risk-level validation maps "low", "LOW" and U+4F4E to low, "medium"
\* to medium, U+9AD8 to high and fails for "bogus"; whatever the input the
\* outcome is low, medium, high or a failure.  Both validators are held to it;
\* the workflow's returns its level in the result and has no failure outcome.
C12_RiskLevelTable ==
  /\ DetectorRiskLevelFollowsTable
  /\ Called("workflowValidateAndFormatResult") =>
       LET level == Field(pureCall.arg, "riskLevel") IN
       /\ pureResult.v.riskLevel \in {"low", "medium", "high"}
       /\ level \in NamedRiskInputs =>
            /\ ExpectedRiskLevel(level).ok
            /\ pureResult.v.riskLevel = ExpectedRiskLevel(level).v

ValidatedAgain ==
  /\ pc = "pure"
  /\ pureCall.fn = "validateAndFormatResult"
  /\ "again" \in DOMAIN pureResult

\* C13: validating a result the validator produced gives a result equal to it
\* in isPhishing, confidenceScore, suspiciousPoints, explanation and riskLevel.
C13_ValidationIdempotent ==
  ValidatedAgain =>
    /\ pureResult.again.ok
    /\ pureResult.again.v.isPhishing = pureResult.v.v.isPhishing
    /\ pureResult.again.v.confidenceScore = pureResult.v.v.confidenceScore
    /\ pureResult.again.v.suspiciousPoints = pureResult.v.v.suspiciousPoints
    /\ pureResult.again.v.explanation = pureResult.v.v.explanation
    /\ pureResult.again.v.riskLevel = pureResult.v.v.riskLevel

\* the part of C13 that holds: all fields but suspiciousPoints
C13_IdempotentButForPoints ==
  ValidatedAgain =>
    /\ pureResult.again.ok
    /\ pureResult.again.v.isPhishing = pureResult.v.v.isPhishing
    /\ pureResult.again.v.confidenceScore = pureResult.v.v.confidenceScore
    /\ pureResult.again.v.explanation = pureResult.v.v.explanation
    /\ pureResult.again.v.riskLevel = pureResult.v.v.riskLevel

\* the level the URL analyzer gave the URL, wherever it is in the list
UrlRatedOnlyAs(url, level) ==
  \A i \in 1..Len(pureResult.v.results) :
    pureResult.v.results[i].url = url => pureResult.v.results[i].riskLevel = level

\* C14 as stated: the URL analyzer rates http://203.0.113.5/verify-login (an
\* IPv4 literal and a phishing keyword) high and https://bit.ly/xyz (a
\* shortener only) medium.
C14_AsStated ==
  Called("url_analyzer") =>
    /\ UrlRatedOnlyAs(IPVerifyLoginUrl, "high")
    /\ UrlRatedOnlyAs(ShortenerUrl, "medium")

\* C14: the URL analyzer rates http://203.0.113.5/verify-login medium, its
\* two features (IPv4 literal, phishing keyword) being no more than two, and
\* https://bit.ly/xyz medium with the shortener as its one feature.
C14_BothUrlsMedium ==
  Called("url_analyzer") =>
    \A i \in 1..Len(pureResult.v.results) :
      LET r == pureResult.v.results[i] IN
      /\ r.url = IPVerifyLoginUrl =>
           /\ r.suspiciousFeatures = <<"IP_ADDRESS_AS_DOMAIN", "PHISHING_KEYWORDS">>
           /\ r.riskLevel = "medium"
      /\ r.url = ShortenerUrl =>
           /\ r.suspiciousFeatures = <<"URL_SHORTENER">>
           /\ r.riskLevel = "medium"

C14_Witness ==
  /\ Called("url_analyzer")
  /\ pureCall.arg = <<IPVerifyLoginUrl, ShortenerUrl>>
  /\ pureResult.v.mediumRisk = 2

\* C15: the domain checker rates a domain high when it has more than one
\* suspicious feature, medium when it has exactly one and low when it has
\* none; paypal-secure-login.tk (brand impersonation and suspicious TLD) is high.
C15_DomainRiskByFlags ==
  Called("domain_checker") =>
    \A i \in 1..Len(pureResult.v.results) :
      LET r == pureResult.v.results[i]
          flags == Len(r.suspiciousFeatures)
      IN /\ flags > 1 => r.riskLevel = "high"
         /\ flags = 1 => r.riskLevel = "medium"
         /\ flags = 0 => r.riskLevel = "low"
         /\ r.domain = PaypalSecureLoginTk =>
              /\ r.suspiciousFeatures = <<"BRAND_IMPERSONATION", "SUSPICIOUS_TLD">>
              /\ r.riskLevel = "high"

C15_Witness ==
  /\ Called("domain_checker")
  /\ pureCall.arg = <<PaypalSecureLoginTk>>
  /\ pureResult.v.highRisk = 1

\* domains with none, one, and more than two features are all graded
C15_EveryGradeSeen ==
  /\ Called("domain_checker")
  /\ Len(pureResult.v.results) = 2
  /\ Len(pureResult.v.results[1].suspiciousFeatures) = 0
  /\ Len(pureResult.v.results[2].suspiciousFeatures) = 1

\* the request has no tools enabled: the detector was asked not to use tools
\* or finds no enabled tool with a usable key, or the workflow was built
\* without tools
NoToolsEnabled ==
  \/ /\ entry = "api"
     /\ ~ConfigRejected
     /\ ~EmptyInput
     /\ LET detector == PhishingDetectorNew(ModelConfigOf(request), RequestedUseTools(request))
        IN ~ActuallyUseTools(request, RequestedUseTools(request), detector.supportsToolCalling)
  \/ entry = "workflow" /\ ~ctorUseTools

NoToolExecuted ==
  /\ toolResults = NoToolResults
  /\ \A i \in 1..Len(messages) : messages[i].role # "tool"

C16_WitnessWorkflow ==
  /\ entry = "workflow"
  /\ NoToolsEnabled
  /\ useTools
  /\ pc = "END"

\* the result is an error result that tells of the cancellation
CancelledResult(r) == r.set /\ r.isError = JSBool(TRUE)

\* C17: once the caller's cancellation signal is set, no step makes a model
\* or tool call, and the result the run returns is an error result and not a
\* verdict.
C17_CancellationStopsTheRun ==
  [][aborted =>
       /\ modelCalls' = modelCalls
       /\ toolResults' = toolResults
       /\ Len(messages') = Len(messages)
       /\ (pc # "returned" /\ pc' = "returned") => CancelledResult(result')]_vars

\* the step continue_analysis is taken
ContinueAnalysisStep == pc = "continue_analysis" /\ pc' # "continue_analysis"

\* the response of the step carries tool requests
NewToolRequests == lastReply'.ok /\ Len(lastReply'.message.tool_calls) > 0

\* C18: after continue_analysis, when the response carries new tool requests
\* and the round counter before the step was below the cap, the counter is
\* incremented and tool_calling is next; in every other case final_analysis
\* is next.
C18_ContinueLoopsBelowCap ==
  [][ContinueAnalysisStep =>
       IF NewToolRequests /\ toolCallCount < maxToolCalls
       THEN toolCallCount' = toolCallCount + 1 /\ pc' = "tool_calling"
       ELSE pc' = "final_analysis"]_vars

\* what the step does: the counter is incremented first and the cap is
\* applied to the incremented counter
C18_CapAppliedAfterIncrement ==
  [][ContinueAnalysisStep =>
       IF NewToolRequests /\ toolCallCount + 1 < maxToolCalls
       THEN toolCallCount' = toolCallCount + 1 /\ pc' = "tool_calling"
       ELSE pc' = "final_analysis"]_vars

\* the edges between steps that the state machine is said to have
StepEdges ==
  { <<"initial_analysis", "tool_calling">>,
    <<"tool_calling", "continue_analysis">>,
    <<"continue_analysis", "tool_calling">>,
    <<"continue_analysis", "final_analysis">> }
\* the steps that lead to completed
StepsBeforeCompleted == {"initial_analysis", "final_analysis"}

FollowsStepEdges ==
  /\ executed # <<>> => executed[1] = "initial_analysis"
  /\ \A i \in 1..(Len(executed) - 1) : <<executed[i], executed[i + 1]>> \in StepEdges
  /\ pc = "END" => executed[Len(executed)] \in StepsBeforeCompleted

\* C19: the steps of a run start at initial_analysis and follow only the
\* edges initial_analysis -> tool_calling | completed, tool_calling ->
\* continue_analysis, continue_analysis -> tool_calling | final_analysis,
\* final_analysis -> completed; no step executes once the step field of the
\* state is completed.
C19_StepsFollowEdges ==
  /\ []FollowsStepEdges
  /\ [][currentStep = "completed" => executed' = executed]_vars

\* the edges of the graph as built: with tools, initial_analysis without a
\* tool request is followed by final_analysis
C19_EdgesAsBuilt ==
  /\ executed # <<>> => executed[1] = "initial_analysis"
  /\ \A i \in 1..(Len(executed) - 1) :
       <<executed[i], executed[i + 1]>> \in
         StepEdges \cup {<<"initial_analysis", "final_analysis">>}
  /\ pc = "END" =>
       IF ctorUseTools THEN executed[Len(executed)] = "final_analysis"
       ELSE executed = <<"initial_analysis">>

\* the messages the step appends to the conversation
Appended == SubSeq(messages', Len(messages) + 1, Len(messages'))

\* the requests of the round whose tool returned a result, by their position
Ran(calls, name) ==
  { i \in 1..Len(calls) :
      calls[i].name = name /\ Appended[i].content.kind = "tool_result" }
Latest(positions) == CHOOSE i \in positions : \A j \in positions : j <= i

\* C20: tool_calling executes the requested tools one after the other in
\* request order and appends exactly one tool message per request, in that
\* order, before continue_analysis: the i-th appended message answers the
\* i-th request, and of two results for one tool the later request's is the
\* one that stays in toolResults.
C20_ToolsRunInRequestOrder ==
  [][(pc = "tool_calling" /\ pc' # "tool_calling") =>
       LET calls == LastMessage(messages).tool_calls IN
       /\ SubSeq(messages', 1, Len(messages)) = messages
       /\ Len(Appended) = Len(calls)
       /\ \A i \in 1..Len(calls) :
            /\ Appended[i].role = "tool"
            /\ Appended[i].tool_call_id = ToolCallId(calls[i])
            /\ Appended[i].content.kind = "tool_result" =>
                 Appended[i].content.result.id = calls[i].id
       /\ \A name \in availableTools :
            Ran(calls, name) # {} =>
              toolResults'[name] = Appended[Latest(Ran(calls, name))].content.result
       /\ pc' = "continue_analysis"]_vars

\* a round of two requests has been answered by two tool messages, the first
\* under the id of the first request and the second under that of the second
C20_Witness ==
  /\ pc = "continue_analysis"
  /\ Len(messages) >= 3
  /\ LET n == Len(messages)
         calls == messages[n - 2].tool_calls
     IN /\ Len(calls) = 2
        /\ ToolCallId(calls[1]) # ToolCallId(calls[2])
        /\ messages[n - 1].role = "tool"
        /\ messages[n - 1].tool_call_id = ToolCallId(calls[1])
        /\ messages[n].role = "tool"
        /\ messages[n].tool_call_id = ToolCallId(calls[2])

\* final_analysis is taken with no tool result collected
FinalAnalysisWithoutResultsStep ==
  /\ pc = "final_analysis"
  /\ pc' # "final_analysis"
  /\ ~hasValidToolResults(toolResults)

\* where initial_analysis leaves the response of the model: after the system
\* message and the analysis prompt
InitialResponseAt == 3
LastAIMessageAt(msgs) ==
  CHOOSE i \in 1..Len(msgs) :
    msgs[i].role = "ai" /\ \A j \in (i + 1)..Len(msgs) : msgs[j].role # "ai"

\* C21: final_analysis entered with no tool result collected, also when
\* every requested tool failed, invokes no model, and what it parses is the
\* assistant message that initial_analysis produced.
C21_DegenerateFinalReusesInitial ==
  [][FinalAnalysisWithoutResultsStep =>
       /\ modelCalls' = modelCalls
       /\ HasAIMessage(messages)
       /\ LastAIMessageAt(messages) = InitialResponseAt
       /\ finalResult' = parseResult(messages[InitialResponseAt].content, clock + 1)]_vars

\* what holds of the step: no invocation, and the last assistant message of
\* the conversation is the one parsed
C21_DegenerateFinalReusesLast ==
  [][FinalAnalysisWithoutResultsStep =>
       /\ modelCalls' = modelCalls
       /\ HasAIMessage(messages)
       /\ finalResult' = parseResult(messages[LastAIMessageAt(messages)].content, clock + 1)]_vars

IsPrefix(s, t) == Len(s) <= Len(t) /\ SubSeq(t, 1, Len(s)) = s

\* C22: the conversation is append-only: whatever step is taken, a failing
\* one included, the messages before the step are a prefix of the messages
\* after it.
C22_LedgerAppendOnly ==
  [][IsPrefix(messages, messages')]_vars

\* a conversation that grew through two rounds of tools and a step that failed
C22_Witness ==
  /\ pc = "final_analysis"
  /\ ~lastReply.ok
  /\ Len(SelectSeq(executed, LAMBDA step : step = "tool_calling")) >= 2
  /\ Len(messages) >= 8

\* the response of the step contains ANALYSIS_COMPLETE or its Chinese gloss
MarkedResponse == lastReply'.ok /\ lastReply'.message.content.marker

\* C23 as stated: a continue_analysis response that contains the completion
\* marker ends the tool loop, whatever else it contains: final_analysis is next.
C23_AsStated ==
  [][(ContinueAnalysisStep /\ MarkedResponse) => pc' = "final_analysis"]_vars

\* C23: a continue_analysis response that contains the completion marker
\* ends the tool loop when it carries no tool request; when it carries tool
\* requests they decide, and tool_calling is next as long as the incremented
\* round counter is below the cap.
C23_MarkerYieldsToToolRequests ==
  [][(ContinueAnalysisStep /\ MarkedResponse) =>
       IF Len(lastReply'.message.tool_calls) > 0 /\ toolCallCount + 1 < maxToolCalls
       THEN pc' = "tool_calling"
       ELSE pc' = "final_analysis"]_vars

\* a response with the marker and a tool request has sent the run back to
\* tool_calling
C23_Witness ==
  /\ pc = "tool_calling"
  /\ executed[Len(executed)] = "continue_analysis"
  /\ LastMessage(messages).content.marker
  /\ Len(LastMessage(messages).tool_calls) > 0


\* the first balanced { ... } block of a text: the JSON object that the
\* first { of the text opens
FirstBalancedBlock(text) ==
  LET opens == PiecesOf(text, {"object", "open"}) IN
  IF opens # {} /\ text[FirstIn(opens)].k = "object"
  THEN << text[FirstIn(opens)] >> ELSE text

\* the value the three layers give, read as stated: the whole text, else
\* its first balanced block, else the text cleaned of fences and prose
LayeredValue(text) ==
  IF JSONParse(text).ok THEN JSONParse(text)
  ELSE IF JSONParse(FirstBalancedBlock(text)).ok THEN JSONParse(FirstBalancedBlock(text))
  ELSE JSONParse(cleanedContent(text))

\* {error: true, ...}, what parseModelResponse returns when nothing parsed
IsErrorObject(x) == x.t = "object" /\ x.v.error.t = "boolean"

\* C24: parsing of model text is layered: the value is that of the whole
\* text when it is JSON, else that of the first balanced { ... } block, else
\* that of the text with fences and surrounding prose stripped; this holds
\* of parseModelResponse and, followed by the formatting, of parseResult.
C24_LayeredParsing ==
  /\ Called("parseModelResponse") =>
       IF LayeredValue(pureCall.arg).ok
       THEN ~IsErrorObject(pureResult.v.v) /\ pureResult.v.v = LayeredValue(pureCall.arg).v
       ELSE IsErrorObject(pureResult.v.v)
  /\ Called("parseResult") =>
       pureResult.v.v = IF LayeredValue(pureCall.arg).ok
                           /\ CanReadProperties(LayeredValue(pureCall.arg).v)
                        THEN WorkflowValidateAndFormatResult(LayeredValue(pureCall.arg).v, 1)
                        ELSE ParseFallbackResult(1)

\* what does hold of both parsers: a text that is one JSON value is read at
\* the first attempt and no later attempt is made
C24_StrictJsonKept ==
  (Called("parseModelResponse") /\ JSONParse(pureCall.arg).ok) =>
     /\ pureResult.v.tried = <<"direct">>
     /\ ~IsErrorObject(pureResult.v.v)
     /\ pureResult.v.v = JSONParse(pureCall.arg).v

\* a verdict followed by a second object has been parsed
C24_TwoObjectsParsed ==
  Called("parseModelResponse") /\ pureCall.arg = TwoObjectsText


\* the values isPhishing is accepted as, and what each is read as; the
\* synonyms are compared in lower case
SaysTrue(x) ==
  x.t = "string" /\ ToLowerCase(x.v) \in {<<"t", "r", "u", "e">>, <<"U+662F">>, <<"y", "e", "s">>}
SaysFalse(x) ==
  x.t = "string" /\ ToLowerCase(x.v) \in {<<"f", "a", "l", "s", "e">>, <<"U+5426">>, <<"n", "o">>}
ReadsAs(x, outcome) ==
  IF x.t = "boolean" THEN outcome.ok /\ outcome.v = x.v
  ELSE IF SaysTrue(x) THEN outcome.ok /\ outcome.v = TRUE
  ELSE IF SaysFalse(x) THEN outcome.ok /\ outcome.v = FALSE
  ELSE ~outcome.ok

\* C25: isPhishing is accepted only as a boolean or as true/是/yes (true) and
\* false/否/no (false); any other value is a validation failure, on the
\* detector's path and on the workflow's, and is never coerced.
C25_IsPhishingNeverCoerced ==
  /\ Called("validateBoolean") => ReadsAs(pureCall.arg, pureResult.v)
  /\ Called("workflowIsPhishing") =>
       ReadsAs(pureCall.arg,
               [ok |-> pureResult.v.ok,
                v |-> IF pureResult.v.ok THEN pureResult.v.v.isPhishing ELSE FALSE])

\* what holds: the detector's validateBoolean follows the table
C25_DetectorFollowsTable ==
  Called("validateBoolean") => ReadsAs(pureCall.arg, pureResult.v)


MaxPoints == 10

\* between 1 and 10 entries, each a non-empty trimmed string
WellFormedPoints(points) ==
  /\ Len(points) \in 1..MaxPoints
  /\ \A i \in 1..Len(points) :
       /\ points[i].t = "string"
       /\ points[i].v # <<>>
       /\ Trim(points[i].v) = points[i].v

\* C26: the suspiciousPoints of every result hold between 1 and 10 entries,
\* each a non-empty trimmed string, whether the model gave an array or one
\* string of lines, on the detector's path and on the workflow's.
C26_PointsWellFormed ==
  (Called("validateSuspiciousPoints") \/ Called("workflowSuspiciousPoints")) =>
    (pureResult.v.ok => WellFormedPoints(pureResult.v.v))

\* what holds: an array given to the detector's validator comes out well formed
C26_DetectorArraysWellFormed ==
  (Called("validateSuspiciousPoints") /\ pureCall.arg.t = "array") =>
    (pureResult.v.ok /\ WellFormedPoints(pureResult.v.v))


\* C27: the validated explanation is a non-empty string of at most 2000
\* characters, the ellipsis of a truncated one counted inside the 2000; an
\* explanation that is no string, or blank, is a validation failure.
C27_ExplanationWithinBound ==
  Called("validateExplanation") =>
    IF IsNonBlankString(pureCall.arg)
    THEN pureResult.v.ok /\ Len(pureResult.v.v) \in 1..MaxExplanationLength
    ELSE ~pureResult.v.ok

\* what holds: the text kept of a long explanation is 2000 characters and
\* the ellipsis comes on top of them
C27_EllipsisAddedToBound ==
  Called("validateExplanation") =>
    IF IsNonBlankString(pureCall.arg)
    THEN /\ pureResult.v.ok
         /\ Len(pureResult.v.v) =
              IF Len(Trim(pureCall.arg.v)) > MaxExplanationLength
              THEN MaxExplanationLength + 3 ELSE Len(Trim(pureCall.arg.v))
    ELSE ~pureResult.v.ok

\* C28: the URL analyzer gives one entry per URL, in the order given; a URL
\* that cannot be parsed is rated high with the invalid-format flag alone and
\* the URLs after it are analysed all the same; a parsed URL is rated high
\* with more than two flags, medium with one or two, low with none.
C28_UrlAnalyzerRatesEveryUrl ==
  Called("url_analyzer") =>
    LET urls == pureCall.arg
        results == pureResult.v.results
    IN /\ Len(results) = Len(urls)
       /\ pureResult.v.total = Len(urls)
       /\ \A i \in 1..Len(urls) :
            LET flags == Len(results[i].suspiciousFeatures) IN
            /\ results[i].url = urls[i]
            /\ IF ParseURL(urls[i]).ok
               THEN /\ \A k \in 1..flags : results[i].suspiciousFeatures[k] # "INVALID_URL_FORMAT"
                    /\ results[i].riskLevel =
                         IF flags > 2 THEN "high" ELSE IF flags >= 1 THEN "medium" ELSE "low"
               ELSE /\ results[i].suspiciousFeatures = <<"INVALID_URL_FORMAT">>
                    /\ results[i].riskLevel = "high"

\* an unparsable URL came first and the URL after it was rated by its flags
C28_Witness ==
  /\ Called("url_analyzer")
  /\ Len(pureCall.arg) = 2
  /\ ~ParseURL(pureCall.arg[1]).ok
  /\ ParseURL(pureCall.arg[2]).ok
  /\ pureResult.v.results[1].riskLevel = "high"
  /\ Len(pureResult.v.results[2].suspiciousFeatures) > 2
  /\ pureResult.v.results[2].riskLevel = "high"

MicrosoftUrl == <<"h", "t", "t", "p", "s", ":", "/", "/", "m", "i", "c", "r", "o", "s", "o", "f", "t", ".", "c", "o", "m", "/">>

HasFlag(entry_, flag) ==
  \E k \in 1..Len(entry_.suspiciousFeatures) : entry_.suspiciousFeatures[k] = flag

\* C29: the URL analyzer raises the shortener flag for a URL exactly when its
\* domain is one of bit.ly, tinyurl.com, t.co, goo.gl, ow.ly; a domain that
\* only contains one of these names, as microsoft.com contains t.co, is not
\* flagged.
C29_ShortenerFlagOnlyForShorteners ==
  Called("url_analyzer") =>
    \A i \in 1..Len(pureCall.arg) :
      ParseURL(pureCall.arg[i]).ok =>
        (HasFlag(pureResult.v.results[i], "URL_SHORTENER")
           <=> \E k \in 1..Len(shorteners) : pureResult.v.results[i].domain = shorteners[k])

\* what holds: the flag is raised exactly when the domain contains one of the
\* names somewhere, and so for microsoft.com
C29_ShortenerFlagBySubstring ==
  Called("url_analyzer") =>
    \A i \in 1..Len(pureCall.arg) :
      /\ ParseURL(pureCall.arg[i]).ok =>
           (HasFlag(pureResult.v.results[i], "URL_SHORTENER")
              <=> IncludesSome(pureResult.v.results[i].domain, shorteners))
      /\ pureCall.arg[i] = MicrosoftUrl => HasFlag(pureResult.v.results[i], "URL_SHORTENER")


DateFlags == {"SENT_IN_THE_FUTURE", "SENT_TOO_LONG_AGO", "INVALID_DATE_FORMAT"}
GivenUnparsableDate == pureCall.arg.date # <<>> /\ DateTime(pureCall.arg.date).t = "nan"

\* the risk level by the number of flags: high above 2, medium for 1 or 2
HeaderRiskByFlags ==
  LET flags == pureResult.v.totalSuspiciousFeatures IN
  /\ flags = Len(pureResult.v.suspiciousFeatures)
  /\ pureResult.v.riskLevel =
       IF flags > 2 THEN "high" ELSE IF flags >= 1 THEN "medium" ELSE "low"

\* C30: in the header analyzer a Date that cannot be parsed adds a flag to
\* the suspicious features and does not abort the analysis, and the risk is
\* high for more than 2 flags, medium for 1 or 2 and low for none.
C30_UnparsableDateFlagged ==
  Called("email_header_analyzer") =>
    /\ HeaderRiskByFlags
    /\ GivenUnparsableDate => HasFlag(pureResult.v, "INVALID_DATE_FORMAT")

\* what holds: the risk follows the number of flags, and a Date that cannot
\* be parsed goes through without any flag about the date
C30_UnparsableDateUnnoticed ==
  Called("email_header_analyzer") =>
    /\ HeaderRiskByFlags
    /\ GivenUnparsableDate => \A f \in DateFlags : ~HasFlag(pureResult.v, f)

\* headers with nothing wrong but a Date that cannot be parsed are rated low
C30_UnparsableDateRatedLow ==
  /\ Called("email_header_analyzer")
  /\ GivenUnparsableDate
  /\ pureResult.v.riskLevel = "low"


\* provider, model id and API key of a configuration are as required
WellFormedButTemperature(config) ==
  /\ config.provider \in {"openai", "anthropic", "google"}
  /\ Trim(config.model) # <<>>
  /\ Trim(config.apiKey) # <<>>
  /\ config.provider = "openai" => StartsWith(config.apiKey, <<"s", "k", "-">>)
  /\ config.provider = "anthropic" => StartsWith(config.apiKey, <<"s", "k", "-", "a", "n", "t", "-">>)
  /\ config.provider = "google" => Len(config.apiKey) >= 10

\* the temperature is a number from 0 to 2 (tenths)
TemperatureInRange(temperature) ==
  temperature.t = "number" /\ temperature.v >= 0 /\ temperature.v <= 20

\* C31: validateConfig returns valid exactly when the provider is supported,
\* the model id is not blank, the API key is not blank and has the shape of
\* its provider, and the temperature is a number in [0,2]; otherwise it
\* returns invalid with a reason.
C31_ValidExactlyWhenWellFormed ==
  Called("validateConfig") =>
    /\ pureResult.v.valid <=>
         (WellFormedButTemperature(pureCall.arg) /\ TemperatureInRange(pureCall.arg.temperature))
    /\ ~pureResult.v.valid => pureResult.v.error # <<>>

\* what holds: the same with the temperature NaN let through
C31_ValidAlsoForNaN ==
  Called("validateConfig") =>
    /\ pureResult.v.valid <=>
         /\ WellFormedButTemperature(pureCall.arg)
         /\ (TemperatureInRange(pureCall.arg.temperature) \/ pureCall.arg.temperature.t = "nan")
    /\ ~pureResult.v.valid => pureResult.v.error # <<>>


\* the kinds of connection failure and the texts each is known by to both
\* parseModelError and parseConnectionError
SubCases == {"auth", "rate limit", "quota", "model not found", "network", "server"}
IsOfSubCase(lowered, subCase) ==
  LET text == lowered IN
  CASE subCase = "auth" ->
         Includes(text, <<"4", "0", "1">>) \/ Includes(text, <<"u", "n", "a", "u", "t", "h", "o", "r", "i", "z", "e", "d">>)
         \/ Includes(text, <<"4", "0", "3">>) \/ Includes(text, <<"f", "o", "r", "b", "i", "d", "d", "e", "n">>)
    [] subCase = "rate limit" -> Includes(text, <<"4", "2", "9">>) \/ Includes(text, <<"r", "a", "t", "e", " ", "l", "i", "m", "i", "t">>)
    [] subCase = "quota" -> Includes(text, <<"q", "u", "o", "t", "a">>)
    [] subCase = "model not found" ->
         Includes(text, <<"m", "o", "d", "e", "l">>) /\ Includes(text, <<"n", "o", "t", " ", "f", "o", "u", "n", "d">>)
    [] subCase = "network" ->
         Includes(text, <<"n", "e", "t", "w", "o", "r", "k">>) \/ Includes(text, <<"f", "e", "t", "c", "h">>) \/ Includes(text, <<"t", "i", "m", "e", "o", "u", "t">>)
    [] subCase = "server" -> Includes(text, <<"5", "0", "0">>) \/ Includes(text, <<"5", "0", "2">>) \/ Includes(text, <<"5", "0", "3">>)

\* the kinds of failure a user-facing message speaks of
SubCasesNamedBy(message) ==
  CASE message \in {<<"API_KEY_INVALID">>, <<"API_KEY_NOT_PERMITTED">>,
                    <<"API_KEY_INVALID_OR_EXPIRED">>,
                    <<"API_KEY_NOT_PERMITTED_CHECK_SETTINGS">>} -> {"auth"}
    [] message = <<"API_RATE_LIMITED">> -> {"rate limit"}
    [] message = <<"API_QUOTA_EXHAUSTED">> -> {"quota"}
    [] message = <<"API_RATE_LIMITED_OR_QUOTA_EXHAUSTED">> -> {"rate limit", "quota"}
    [] message \in {<<"MODEL_NOT_FOUND">>, <<"MODEL_NOT_FOUND_OR_UNAVAILABLE">>} -> {"model not found"}
    [] message \in {<<"NETWORK_FAILED">>, <<"NETWORK_FAILED_CHECK_CONNECTION">>} -> {"network"}
    [] message = <<"SERVER_UNAVAILABLE_RETRY_LATER">> -> {"server"}
    [] OTHER -> {}

\* a transport error (an Error that is none of the factory's own) whose text
\* is of some kind of connection failure has been mapped
MappedTransportError ==
  /\ Called("parseModelError") \/ Called("parseConnectionError")
  /\ pureCall.arg.name = "Error"
  /\ \E c \in SubCases : IsOfSubCase(ToLowerCase(pureCall.arg.message), c)

\* C32: the text of a transport error of one of the six kinds (auth, rate
\* limit, quota, model not found, network or timeout, server 5xx) is mapped
\* to the message of that kind alone, and a text of several kinds to the
\* message of one of them.
C32_EachSubCaseHasItsMessage ==
  MappedTransportError =>
    \E c \in SubCases :
      /\ IsOfSubCase(ToLowerCase(pureCall.arg.message), c)
      /\ SubCasesNamedBy(pureResult.v) = {c}

\* what holds of parseConnectionError: the message names a kind the text is
\* of, one message standing for rate limit and quota together
C32_FactoryMessageOfSomeSubCase ==
  (MappedTransportError /\ Called("parseConnectionError")) =>
    \E c \in SubCasesNamedBy(pureResult.v) : IsOfSubCase(ToLowerCase(pureCall.arg.message), c)

\* what holds of parseModelError: but for a text of the server kind alone,
\* which comes back as it is, the message names one kind the text is of
C32_DetectorMessageButForServer ==
  (MappedTransportError /\ Called("parseModelError")) =>
    IF \E c \in SubCases \ {"server"} : IsOfSubCase(ToLowerCase(pureCall.arg.message), c)
    THEN \E c \in SubCases :
           /\ IsOfSubCase(ToLowerCase(pureCall.arg.message), c)
           /\ SubCasesNamedBy(pureResult.v) = {c}
    ELSE pureResult.v = pureCall.arg.message

\* the model invocation of a continue_analysis step failed
FailedContinueStep == ContinueAnalysisStep /\ ~lastReply'.ok

\* C34: when the model invocation inside continue_analysis fails, the step
\* leaves the conversation, the collected tool results and the round counter
\* as they were, and the next step is final_analysis.
C34_FailedContinueGoesToFinal ==
  [][FailedContinueStep =>
       /\ UNCHANGED <<messages, toolResults, toolCallCount>>
       /\ currentStep' = "final_analysis"
       /\ pc' = "final_analysis"]_vars

\* a continue_analysis step failed after a round of tools and the final
\* analysis is next
C34_Witness ==
  /\ pc = "final_analysis"
  /\ Len(executed) > 0 /\ executed[Len(executed)] = "continue_analysis"
  /\ ~lastReply.ok
  /\ toolCallCount = 1
  /\ LastMessage(messages).role = "tool"

\* the results the tools returned in this run, as the conversation records them
ResultsObtained ==
  { messages[i].content.result :
      i \in { j \in 1..Len(messages) :
                messages[j].role = "tool" /\ messages[j].content.kind = "tool_result" } }

\* C36: every tool result obtained in the run is still among the collected
\* tool results when the final analysis is reached; a later call, of the same
\* tool too, discards no earlier result.
C36_NoToolResultDiscarded ==
  pc = "final_analysis" =>
    \A res \in ResultsObtained : \E n \in DOMAIN toolResults : toolResults[n] = res

\* what holds: the collected results keep, for each tool that returned, the
\* result of its latest call and nothing else
C36_LatestResultPerTool ==
  /\ \A n \in DOMAIN toolResults :
       /\ toolResults[n] \in ResultsObtained
       /\ toolResults[n].tool = n
       /\ \A res \in ResultsObtained :
            res.tool = n => <<res.round, res.id>> = <<toolResults[n].round, toolResults[n].id>>
                            \/ res.round < toolResults[n].round
                            \/ (res.round = toolResults[n].round /\ res.id < toolResults[n].id)
  /\ \A res \in ResultsObtained : res.tool \in DOMAIN toolResults

\* each assistant message of msgs that carries tool requests is followed at
\* once by one tool message for each request, in the order of the requests
EveryToolRequestAnswered(msgs) ==
  \A i \in 1..Len(msgs) :
    msgs[i].role = "ai" =>
      \A k \in 1..Len(msgs[i].tool_calls) :
        /\ i + k <= Len(msgs)
        /\ msgs[i + k].role = "tool"
        /\ msgs[i + k].tool_call_id = ToolCallId(msgs[i].tool_calls[k])

\* a step that invokes the model
ModelInvoked == modelCalls' = modelCalls + 1

\* C35: the model is never invoked on a conversation that holds a tool
\* request without its tool message, at the round cap no more than elsewhere.
C35_NoUnansweredRequestSent ==
  [][ModelInvoked => EveryToolRequestAnswered(messages)]_vars

\* what holds: a request is sent unanswered by final_analysis alone, after
\* the round in which the counter reached the cap
C35_UnansweredOnlyAtCap ==
  [][(ModelInvoked /\ ~EveryToolRequestAnswered(messages)) =>
       /\ pc = "final_analysis"
       /\ toolCallCount = maxToolCalls
       /\ Len(LastMessage(messages).tool_calls) > 0
       /\ EveryToolRequestAnswered(SubSeq(messages, 1, Len(messages) - 1))]_vars


(***************************************************************************)
(* The ReAct variant of the workflow: analyze(emailContent, tavilyApiKey)  *)
(* builds its search tool, binds it to the model and runs the graph        *)
(* agent -> tools -> agent under a recursion limit.  Two calls of analyze  *)
(* run on one server process; every await is a point where the other call  *)
(* can take a step.  Texts of the model are given piece by piece.          *)
(***************************************************************************)
recursionLimit == 15

\* keys the requests bring: one Tavily accepts, one it refuses, none
TavilyKeys == { <<"tvly-good">>, <<"tvly-bad">>, <<>> }
AcceptedTavilyKeys == { <<"tvly-good">>, <<"tvly-env">> }

\* process.env.TAVILY_API_KEY when the server starts: set to nothing, or set
ReactEnvs == { JSStr(<<>>), JSStr(<<"tvly-env">>) }

\* new TavilySearch({ maxResults: 5 }): the key is read from the environment
\* when the tool is constructed; there is no tool without a key
TavilySearch(env) ==
  IF Truthy(env) THEN Ok([built |-> TRUE, apiKey |-> env.v])
  ELSE Throws(<<"No Tavily API key found">>)

\* a variant that takes the key the environment already holds and leaves
\* its own key there
createTavilySearchToolKeyLeft(apiKey, env) ==
  [tool |-> TavilySearch(IF Truthy(env) THEN env ELSE JSStr(apiKey)),
   env |-> JSStr(apiKey)]

\* createTavilySearchTool: the tool built and process.env.TAVILY_API_KEY as
\* the call leaves it (both the try and the catch restore it)
createTavilySearchTool(apiKey, env) ==
  LET originalApiKey == env
      set == JSStr(apiKey)
      tool == TavilySearch(set)
  IN [tool |-> tool,
      env |-> IF Truthy(originalApiKey) THEN originalApiKey ELSE JSUndefined]

\* createErrorResult of the ReAct variant
reactCreateErrorResult(message) ==
  [MkResult(FALSE, JSNum(0), <<JSStr(<<"Error: ">> \o message)>>,
            <<"An error occurred during analysis: ">> \o message, "low", 0)
     EXCEPT !.isError = JSBool(TRUE), !.errorMessage = JSStr(message)]

\* typeof p === 'string' ? p.trim() : JSON.stringify(p), '' for undefined
reactPointText(p) ==
  CASE p.t = "string" -> Trim(p.v)
    [] p.t = "undefined" -> <<>>
    [] p.t = "null" -> <<"n", "u", "l", "l">>
    [] OTHER -> StringOf(p)

\* validateAndFormatResult of the ReAct variant
reactValidateAndFormatResult(rawResult) ==
  IF rawResult.t \notin {"object", "array"}
  THEN reactCreateErrorResult(<<"RESULT_IS_NOT_AN_OBJECT">>)
  ELSE
    LET ip == Field(rawResult, "isPhishing")
        cs == Field(rawResult, "confidenceScore")
        sp == Field(rawResult, "suspiciousPoints")
        ex == Field(rawResult, "explanation")
        rl == Field(rawResult, "riskLevel")
        texts == IF sp.t = "array"
                 THEN [i \in 1..Len(sp.v) |-> JSStr(reactPointText(sp.v[i]))] ELSE <<>>
    IN MkResult(
         IF ip.t = "boolean" THEN ip.v ELSE FALSE,
         CASE cs.t = "number" -> JSNum(Max(0, Min(1000, cs.v)))
           [] cs.t = "nan" -> JSNaN
           [] OTHER -> JSNum(500),
         SelectSeq(texts, Truthy),
         IF ex.t = "string" THEN Trim(ex.v) ELSE <<"NO_DETAILED_EXPLANATION">>,
         IF rl.t = "string" /\ LevelName(rl.v) # "none" THEN LevelName(rl.v) ELSE "medium",
         0)

\* content.match(/```(json)?\n([\s\S]*?)\n```/): what lies between the first
\* fence and the one after it; <<>> is no match (or an empty group)
reactJsonMatch(content) ==
  LET fences == PiecesOf(content, {"fence"}) IN
  IF Cardinality(fences) >= 2
  THEN LET first == FirstIn(fences)
           second == FirstIn(fences \ {first})
       IN IF second > first + 1 THEN << SubSeq(content, first + 1, second - 1) >> ELSE <<>>
  ELSE <<>>

\* parseResult of the ReAct variant
reactParseResult(content) ==
  LET direct == parserParseText(content)
      match == reactJsonMatch(content)
  IN IF direct.ok THEN reactValidateAndFormatResult(direct.v)
     ELSE IF match # <<>>
       THEN IF JSONParse(match[1]).ok
            THEN reactValidateAndFormatResult(JSONParse(match[1]).v)
            ELSE reactCreateErrorResult(<<"MODEL_RESPONSE_JSON_UNPARSABLE">>)
     ELSE reactCreateErrorResult(<<"MODEL_RESPONSE_WITHOUT_JSON_BLOCK">>)

\* shouldContinue: the node after agent
shouldContinue(msgs) ==
  LET lastMessage == LastMessage(msgs) IN
  IF lastMessage.role # "ai" THEN "END"
  ELSE IF Len(lastMessage.tool_calls) > 0 THEN "tools" ELSE "END"

\* a graph that never runs out of steps
NeverOutOfSteps(steps) == FALSE

\* the graph has run recursionLimit steps and has not reached END
OutOfSteps(steps) == steps >= recursionLimit

\* the rest of the try block once invoke has resolved
reactFinished(run) ==
  LET lastMessage == LastMessage(run.messages) IN
  [run EXCEPT !.pc = "returned",
              !.result = IF lastMessage.content # <<>>
                         THEN reactParseResult(lastMessage.content)
                         ELSE reactCreateErrorResult(<<"WORKFLOW_ENDED_WITHOUT_RESULT">>)]

\* the catch block of analyze
reactCaught(run, errorMessage) ==
  [run EXCEPT !.pc = "returned", !.result = reactCreateErrorResult(errorMessage)]

\* a node has run and another one is due: invoke rejects when the limit is used up
reactNextNode(run, node) ==
  IF OutOfSteps(run.steps)
  THEN reactCaught(run, <<"Recursion limit of 15 reached without hitting a stop condition">>)
  ELSE [run EXCEPT !.pc = node]

\* analyze up to the first await: the checks, the tool, the initial state
reactStarted(tavilyApiKey, env) ==
  IF tavilyApiKey = <<>>
  THEN [run |-> [IdleRun EXCEPT !.pc = "returned",
                                !.result = reactCreateErrorResult(<<"TAVILY_API_KEY_REQUIRED">>)],
        env |-> env]
  ELSE
    LET created == createTavilySearchTool(tavilyApiKey, env) IN
    [run |-> IF created.tool.ok
             THEN [IdleRun EXCEPT !.pc = "agent",
                                  !.tavilyApiKey = tavilyApiKey,
                                  !.tool = created.tool.v,
                                  !.messages = <<SystemMessage,
                                                 HumanMessage([kind |-> "analysis_prompt"])>>]
             ELSE [IdleRun EXCEPT !.pc = "thrown",
                                  !.tavilyApiKey = tavilyApiKey,
                                  !.thrown = created.tool.error],
     env |-> created.env]

\* agentNode, the conditional edge after it and what analyze does when the
\* graph ends there or the model rejects
agentNode(run, reply) ==
  LET stepped == [run EXCEPT !.steps = @ + 1,
                             !.trace = Append(@, [node |-> "agent", reply |-> reply])]
  IN IF ~reply.ok THEN reactCaught(stepped, reply.error.message)
     ELSE LET answered == [stepped EXCEPT !.messages = Append(@, reply.message)] IN
          IF shouldContinue(answered.messages) = "tools"
          THEN reactNextNode(answered, "tools")
          ELSE reactFinished(answered)

\* what the search tool of a run answers: Tavily refuses a key it does not know
TavilyAnswer(tool) ==
  IF tool.apiKey \in AcceptedTavilyKeys
  THEN [kind |-> "tool_result", tool |-> "tavily_search", result |-> <<"SEARCH_RESULTS">>]
  ELSE [kind |-> "tool_failed", tool |-> "tavily_search", result |-> <<"401 Unauthorized">>]

\* ToolNode: one tool message per request of the last message, an error
\* message where the tool threw; then the edge back to agent
toolsNode(run) ==
  LET toolCalls == LastMessage(run.messages).tool_calls
      answers == [i \in 1..Len(toolCalls) |->
                    ToolMessage(TavilyAnswer(run.tool), ToolCallId(toolCalls[i]))]
      stepped == [run EXCEPT !.steps = @ + 1,
                             !.trace = Append(@, [node |-> "tools", reply |-> NoReply]),
                             !.messages = @ \o answers]
  IN reactNextNode(stepped, "agent")

\* model texts of the variant: a verdict, prose, fenced prose, nothing
ReactContents ==
  { << ObjectText(GoodVerdict) >>, << Word >>, << Fence, Word, Fence >>, << >> }

\* what an invoke of the model with the tool bound can give
ReactOutcomes(n) ==
  { Rejected(e) : e \in ModelErrors }
  \cup { Answered(AIMessage(c, <<>>)) : c \in ReactContents }
  \cup { Answered(AIMessage(<<>>, <<ToolCall("tavily_search", n)>>)) }

ReactInit ==
  /\ pc = "react"
  /\ entry = "none"
  /\ request = NoRequest
  /\ ctorUseTools = FALSE
  /\ messages = <<>>
  /\ toolResults = NoToolResults
  /\ finalResult = NoResult
  /\ useTools = FALSE
  /\ currentStep = "initial_analysis"
  /\ toolCallCount = 0
  /\ clock = 0
  /\ modelCalls = 0
  /\ lastReply = NoReply
  /\ executed = <<>>
  /\ thrown = NoError
  /\ result = NoResult
  /\ pureCall = NoCall
  /\ pureResult = NotCalled
  /\ aborted = FALSE
  /\ processEnv \in ReactEnvs
  /\ runs = [r \in Runs |-> IdleRun]
  /\ hook = MountedHook

ReactUnchanged ==
  /\ UNCHANGED <<pc, entry, request, ctorUseTools, messages, toolResults, finalResult,
                 useTools, currentStep, toolCallCount, clock, modelCalls, lastReply,
                 executed, thrown, result, aborted, pureCall, pureResult, hook>>

\* a request calls analyze
reactAnalyze(r, tavilyApiKey) ==
  /\ pc = "react"
  /\ runs[r].pc = "idle"
  /\ LET started == reactStarted(tavilyApiKey, processEnv) IN
       /\ runs' = [runs EXCEPT ![r] = started.run]
       /\ processEnv' = started.env
  /\ ReactUnchanged

\* the agent node of a run is executed and the model settles
reactAgentStep(r, reply) ==
  /\ pc = "react"
  /\ runs[r].pc = "agent"
  /\ runs' = [runs EXCEPT ![r] = agentNode(runs[r], reply)]
  /\ UNCHANGED processEnv
  /\ ReactUnchanged

\* the tools node of a run is executed
reactToolsStep(r) ==
  /\ pc = "react"
  /\ runs[r].pc = "tools"
  /\ runs' = [runs EXCEPT ![r] = toolsNode(runs[r])]
  /\ UNCHANGED processEnv
  /\ ReactUnchanged

ReactNext ==
  \/ \E r \in Runs, tavilyApiKey \in TavilyKeys : reactAnalyze(r, tavilyApiKey)
  \/ \E r \in Runs : \E reply \in ReactOutcomes(runs[r].steps + 1) : reactAgentStep(r, reply)
  \/ \E r \in Runs : reactToolsStep(r)

ReactSpec == ReactInit /\ [][ReactNext]_vars


(***************************************************************************)
(* C33.  Two concurrent requests.                                          *)
(***************************************************************************)
\* the run of analyze on its own: the steps of a trace replayed from the
\* start, with the environment as given and no other request on the server
RECURSIVE AnalyzeAloneFrom(_, _, _)
AnalyzeAloneFrom(run, trace, k) ==
  IF k > Len(trace) THEN run
  ELSE AnalyzeAloneFrom(IF trace[k].node = "agent" THEN agentNode(run, trace[k].reply)
                        ELSE toolsNode(run),
                        trace, k + 1)

AnalyzeAlone(tavilyApiKey, env, trace) ==
  AnalyzeAloneFrom(reactStarted(tavilyApiKey, env).run, trace, 1)

ServerEnvs == ReactEnvs \cup {JSUndefined}
RequestKeys == TavilyKeys \ {<<>>}

\* C33 as stated: no step of a request writes state that a step of another
\* request can read; the tool API key in process.env.TAVILY_API_KEY is such
\* state and no step changes it.
C33_NoSharedStateWritten == [][processEnv' = processEnv]_vars

\* C33: two requests running concurrently do not influence each other: the
\* locals of each (conversation, steps, tool, result) are what the same
\* request gives when it runs alone, whatever the environment held; the
\* tool of each holds the key of its own request; and no request leaves its
\* key in process.env.  (process.env.TAVILY_API_KEY itself is written by
\* every request: set and restored within createTavilySearchTool.)
C33_EachRequestAsIfAlone ==
  /\ \A r \in Runs :
       runs[r].pc # "idle" =>
         /\ \A env \in ServerEnvs :
              runs[r] = AnalyzeAlone(runs[r].tavilyApiKey, env, runs[r].trace)
         /\ runs[r].tool.built => runs[r].tool.apiKey = runs[r].tavilyApiKey
  /\ processEnv \in ServerEnvs
  /\ processEnv \notin { JSStr(k) : k \in RequestKeys }

\* both requests are in flight with different keys, each after a search of
\* its own: one answered, the other refused
C33_Witness ==
  /\ runs[1].pc = "agent" /\ runs[2].pc = "tools"
  /\ runs[1].tavilyApiKey = <<"tvly-good">> /\ runs[2].tavilyApiKey = <<"tvly-bad">>
  /\ runs[1].steps = 2 /\ runs[2].steps = 3
  /\ LastMessage(runs[1].messages).content.kind = "tool_result"
  /\ runs[2].messages[4].content.kind = "tool_failed"

(***************************************************************************)
(* C37.  The recursion limit of the ReAct variant.                         *)
(***************************************************************************)
\* every response of the model in the run asked for a tool
AlwaysRequestsTool(run) ==
  /\ run.steps > 0
  /\ \A i \in 1..Len(run.messages) :
       run.messages[i].role = "ai" => Len(run.messages[i].tool_calls) > 0

\* a response of the model was a rejection
ModelFailed(run) ==
  \E k \in 1..Len(run.trace) : run.trace[k].node = "agent" /\ ~run.trace[k].reply.ok

\* C37: a run of the ReAct variant executes at most 15 graph steps and does
\* not stay in the graph once they are used up; a run in which the model
\* asked for a tool on every turn, or in which the model invocation failed,
\* returns an error result with isError = true; analyze never throws,
\* whatever the model and the tool do.
C37_ReactStopsAtLimit ==
  \A r \in Runs :
    /\ runs[r].steps <= recursionLimit
    /\ runs[r].pc \in {"agent", "tools"} => runs[r].steps < recursionLimit
    /\ runs[r].pc # "thrown"
    /\ runs[r].pc = "returned" /\ (AlwaysRequestsTool(runs[r]) \/ ModelFailed(runs[r]))
         => runs[r].result.isError = JSBool(TRUE)

\* the model asked for a tool on each of its eight turns, the tool failed
\* each time, and analyze has returned
C37_Witness ==
  /\ runs[1].pc = "returned"
  /\ runs[1].steps = recursionLimit
  /\ AlwaysRequestsTool(runs[1])
  /\ \E i \in 1..Len(runs[1].messages) :
       runs[1].messages[i].role = "tool" /\ runs[1].messages[i].content.kind = "tool_failed"
  /\ runs[1].result.isError = JSBool(TRUE)


(***************************************************************************)
(* usePhishingAnalysis (use-phishing-analysis.ts).  hook holds the React   *)
(* state of the hook and the calls of analyzeEmail it has made: call c is  *)
(* the c-th one, its AbortController is controller c.  by names the call   *)
(* whose code wrote analysisState last (0: none of them), toast the toast  *)
(* on the screen.                                                          *)
(***************************************************************************)
MaxAnalyses == 2         \* calls of analyzeEmail made through one mounted hook

ProgressStep == 30       \* (prev.progress || 0) + 3
ProgressCap == 900       \* Math.min(..., 90)
ProgressDone == 1000     \* progress: 100

AnalysisState(status, progress, by) == [status |-> status, progress |-> progress, by |-> by]

\* what analyzeEmailContent(request) can settle with: a verdict, a wrapped
\* error result, a failed server action, a rejection
HookResponses == { "verdict", "wrapped_error", "action_failed", "rejected" }

\* analyzeEmail up to its await
analyzeEmailStarted(h, valid) ==
  IF ~valid
  THEN [h EXCEPT !.analysisState = AnalysisState("error", JSUndefined, 0),
                 !.toast = "error"]
  ELSE LET controller == Len(h.calls) + 1 IN
       [h EXCEPT !.abortController = controller,
                 !.analysisState = AnalysisState("analyzing", JSNum(0), controller),
                 !.currentStep = "analyzing",
                 !.calls = Append(@, [aborted |-> FALSE, pc |-> "waiting"])]

\* analyzeEmail after its await, for call c: the branches on the response
\* and the catch block
analyzeEmailSettled(h, c, response) ==
  [h EXCEPT !.calls[c].pc = "settled",
            !.currentStep = IF response = "verdict" THEN "completed" ELSE "error",
            !.toast = IF response = "verdict" THEN @ ELSE "error",
            !.analysisState = IF response = "verdict"
                              THEN AnalysisState("completed", JSNum(ProgressDone), c)
                              ELSE AnalysisState("error", JSUndefined, c)]

\* the body shared by cancelAnalysis and resetAnalysis; the toast left on
\* the screen is the cancellation notice or none
analysisReset(h, notice) ==
  LET controller == h.abortController IN
  [h EXCEPT !.calls = IF controller # 0 THEN [@ EXCEPT ![controller].aborted = TRUE] ELSE @,
            !.abortController = 0,
            !.analysisState = AnalysisState("idle", JSUndefined, 0),
            !.currentStep = "",
            !.toast = notice]

HookInit ==
  /\ pc = "hook"
  /\ entry = "none"
  /\ request = NoRequest
  /\ ctorUseTools = FALSE
  /\ messages = <<>>
  /\ toolResults = NoToolResults
  /\ finalResult = NoResult
  /\ useTools = FALSE
  /\ currentStep = "initial_analysis"
  /\ toolCallCount = 0
  /\ clock = 0
  /\ modelCalls = 0
  /\ lastReply = NoReply
  /\ executed = <<>>
  /\ thrown = NoError
  /\ result = NoResult
  /\ pureCall = NoCall
  /\ pureResult = NotCalled
  /\ aborted = FALSE
  /\ processEnv = JSUndefined
  /\ runs = [r \in Runs |-> IdleRun]
  /\ hook = MountedHook

HookUnchanged ==
  UNCHANGED <<pc, entry, request, ctorUseTools, messages, toolResults, finalResult,
              useTools, currentStep, toolCallCount, clock, modelCalls, lastReply,
              executed, thrown, result, aborted, pureCall, pureResult, processEnv, runs>>

\* the component calls analyzeEmail(request)
hookAnalyzeEmail(valid) ==
  /\ pc = "hook"
  /\ Len(hook.calls) + hook.timers < MaxAnalyses
  /\ hook' = analyzeEmailStarted(hook, valid)
  /\ HookUnchanged

\* the interval of call c fires: setAnalysisState(prev => ...)
hookProgressInterval(c) ==
  /\ pc = "hook"
  /\ c \in DOMAIN hook.calls
  /\ hook.calls[c].pc = "waiting"
  /\ hook.analysisState.status = "analyzing"
  /\ LET prev == hook.analysisState
         newProgress == Min((IF Truthy(prev.progress) THEN prev.progress.v ELSE 0)
                              + ProgressStep, ProgressCap)
     IN hook' = [hook EXCEPT !.analysisState.progress = JSNum(newProgress)]
  /\ HookUnchanged

\* analyzeEmailContent(request) of call c settles and analyzeEmail resumes
hookResponse(c, response) ==
  /\ pc = "hook"
  /\ c \in DOMAIN hook.calls
  /\ hook.calls[c].pc = "waiting"
  /\ hook' = analyzeEmailSettled(hook, c, response)
  /\ HookUnchanged

hookCancelAnalysis ==
  /\ pc = "hook"
  /\ hook' = analysisReset(hook, "cancelled")
  /\ HookUnchanged

hookResetAnalysis ==
  /\ pc = "hook"
  /\ hook' = analysisReset(hook, "")
  /\ HookUnchanged

\* retryAnalysis: resetAnalysis() and setTimeout(() => analyzeEmail(request), 200)
hookRetryAnalysis ==
  /\ pc = "hook"
  /\ Len(hook.calls) + hook.timers < MaxAnalyses
  /\ hook' = [analysisReset(hook, "") EXCEPT !.timers = @ + 1]
  /\ HookUnchanged

\* the timeout of retryAnalysis fires
hookRetryTimeout(valid) ==
  /\ pc = "hook"
  /\ hook.timers > 0
  /\ hook' = analyzeEmailStarted([hook EXCEPT !.timers = @ - 1], valid)
  /\ HookUnchanged

HookNext ==
  \/ \E valid \in BOOLEAN : hookAnalyzeEmail(valid)
  \/ \E c \in 1..MaxAnalyses : hookProgressInterval(c)
  \/ \E c \in 1..MaxAnalyses, response \in HookResponses : hookResponse(c, response)
  \/ hookCancelAnalysis
  \/ hookResetAnalysis
  \/ hookRetryAnalysis
  \/ \E valid \in BOOLEAN : hookRetryTimeout(valid)

HookSpec == HookInit /\ [][HookNext]_vars

(***************************************************************************)
(* C38.  Late responses in the hook.                                       *)
(***************************************************************************)
\* the response of call c is handled in this step
Settles(c) ==
  /\ c \in DOMAIN hook.calls
  /\ hook.calls[c].pc = "waiting"
  /\ hook'.calls[c].pc = "settled"

\* call c was cancelled or reset, or a later call has been started
Superseded(c) == hook.calls[c].aborted \/ c < Len(hook.calls)

\* C38: the response of a request that was cancelled or reset while in
\* flight, or that is older than another request, never changes the
\* analysis state.
C38_LateResponseIgnored ==
  [][\A c \in 1..MaxAnalyses :
       Settles(c) /\ Superseded(c) => hook'.analysisState = hook.analysisState]_vars

\* what the hook does: the response of every call, superseded or not,
\* writes the analysis state, which is never idle after it
C38_EveryResponseWritten ==
  [][\A c \in 1..MaxAnalyses :
       Settles(c) => /\ hook'.analysisState.by = c
                     /\ hook'.analysisState.status \in {"completed", "error"}]_vars

\* a cancelled call has overwritten the idle state
C38_CancelledCallWrote ==
  /\ hook.analysisState.by # 0
  /\ hook.calls[hook.analysisState.by].aborted
  /\ hook.analysisState.status = "completed"
  /\ hook.abortController = 0

====
